---- MODULE Spec2Model ----
(***************************************************************************)
(* State-machine model of the real-time core of WeUnion                    *)
(* (src/server/socket/socketHandler.js) together with the REST routes and  *)
(* the schema it shares the store with.  Every `await` of a handler is a   *)
(* suspension point, so a handler is one action per stretch of code        *)
(* between two awaits; a store query is evaluated when it resolves.        *)
(***************************************************************************)
EXTENDS Integers, Sequences, FiniteSets, TLC

\* ------------------------------------------------------------ constants
MAX_ATTEMPTS == 3
BLOCK_DURATION == 10000
ATTEMPT_WINDOW == 5000
LOGIN_COOLDOWN == 2000

\* ------------------------------------------------------------ bounds
\* most connection attempts with a verifiable credential kept in the
\* attempt history (older ones are dropped when they leave the window)
MaxLog == 5
\* the clock stops advancing MaxElapsed milliseconds after start
MaxElapsed == 10000
\* most send_message events handled, over all connections
MaxSends == 2
\* most mark_messages_read events handled, over all connections
MaxReads == 2
MaxTypings == 2
MaxRest == 2
MaxIdle == 30000

\* ------------------------------------------------------------ universe
Users == {1, 2}
\* socket ids are random strings in the code; here integers disjoint from
\* the user ids, so that comparing one with the other is computed, and false
Sockets == {101, 102, 103, 104}
Convs == {1, 2}
\* Map.get of an absent key, a missing payload field
None == 0
\* the clock advances in steps of half an attempt window
TickStep == ATTEMPT_WINDOW \div 2
\* Date.now() when the server starts: far from the epoch
StartTime == 3 * BLOCK_DURATION

VARIABLES
  now,                \* Date.now()
  connectionAttempts, \* userId -> { count, lastAttempt, blocked }
  connectedUsers,     \* userId -> socketId
  userSockets,        \* socketId -> user info (the userId)
  sock,               \* per socket: handshake data and handler position
  rooms,              \* socketId -> conversation rooms joined
  inbox,              \* socketId -> events delivered to the client
  discTasks,          \* disconnect handlers awaiting the offline UPDATE
  bcast,              \* broadcastUserStatus calls at their contacts query
  sendTasks,          \* socketId -> handleSendMessage calls, in arrival order
  readTasks,          \* socketId -> handleMarkMessagesRead calls
  dbStatus,           \* users.status
  dbSessions,         \* user_sessions rows
  dbExpired,          \* tokens whose row NOW() of the store has reached
  dbPassed,           \* tokens whose row NOW() of the store has passed
  jwtExpired,         \* tokens whose exp claim has passed
  nodePassed,         \* tokens whose row the server's clock has passed
  recentLogins,       \* POST /login: username, address -> time of the last login
  tokenCache,         \* authMiddleware: tokens validated in the last minute
  restTasks,          \* REST requests, in arrival order, and where each stands
  issued,             \* tokens signed so far by register/login
  dbContacts,         \* contacts rows
  contactSeq,         \* contacts_id_seq: the last id given
  dbGroupMembers,     \* group_members of the group behind a conversation
  dbParticipants,     \* conversation_participants
  dbMessages,         \* messages rows, in insertion order
  dbReads,            \* message_reads rows
  dbUpdatedAt,        \* conversations.updated_at
  logging,            \* whether attemptLog is kept in this run
  attemptLog,         \* history: recent verifiable attempts and connections
  episodes,           \* history: times a user's last live connection closed
  roomEmits           \* history: each room emit and who was subscribed then

vars == << now, connectionAttempts, connectedUsers, userSockets, sock, rooms,
           inbox, discTasks, bcast, sendTasks, readTasks, dbStatus,
           dbSessions, dbExpired, issued, dbContacts, dbGroupMembers,
           dbParticipants,
           dbMessages, dbReads, dbUpdatedAt, logging,
           attemptLog, episodes, roomEmits, jwtExpired, tokenCache,
           restTasks, dbPassed, nodePassed, recentLogins, contactSeq >>

restVars == << jwtExpired, tokenCache, restTasks, dbPassed, nodePassed,
               recentLogins, contactSeq >>
registryVars == << connectedUsers, userSockets >>
msgVars == << sendTasks, readTasks, dbMessages, dbReads, dbUpdatedAt,
              roomEmits >>
fixtureVars == << dbContacts, dbParticipants, logging >>
storeVars == << dbStatus, dbSessions, dbExpired, issued, dbGroupMembers >>
lifeVars == << now, connectionAttempts, connectedUsers, userSockets, sock,
               discTasks, bcast, attemptLog, episodes >>

\* ------------------------------------------------------------ tokens
\* A credential: absent, a string that fails jwt.verify, or a JWT signed at
\* register/login for userId.  jwt.sign puts the user and iat, the whole
\* second of the signing, into the token: two tokens signed for one user in
\* the same second are the same string.  iat 1 stands for the second of
\* the user's registration, before the server of the run started.
NoToken == [kind |-> "none", userId |-> None, iat |-> 0]
ForgedToken == [kind |-> "forged", userId |-> None, iat |-> 0]
Jwt(u, k) == [kind |-> "jwt", userId |-> u, iat |-> k]

\* jwt.verify(token, secret): signature and exp
JwtVerify(tok) ==
  tok.kind = "jwt" /\ tok \in issued /\ tok \notin jwtExpired

\* ------------------------------------------------------------ rate limit
NoRecord == [present |-> FALSE, count |-> 0, lastAttempt |-> 0,
             blocked |-> FALSE]

\* connectionAttempts.get(userId) || { count: 0, lastAttempt: 0, blocked: false }
GetAttempts(u) ==
  IF connectionAttempts[u].present
  THEN connectionAttempts[u]
  ELSE [present |-> TRUE, count |-> 0, lastAttempt |-> 0, blocked |-> FALSE]

\* The rate-limit check of one attempt at time t on record a: the verdict
\* ("blocked": rejected while the block is in force, the record untouched;
\* "limit": this attempt exceeded MAX_ATTEMPTS; "pass") and the record after.
\* a rate-limit check whose block never runs out
RateCheckStuck(a, t) ==
  IF a.blocked
  THEN [verdict |-> "blocked", rec |-> a, stored |-> FALSE]
  ELSE IF (t - a.lastAttempt) < ATTEMPT_WINDOW
       THEN IF a.count + 1 > MAX_ATTEMPTS
            THEN [verdict |-> "limit",
                  rec |-> [a EXCEPT !.count = a.count + 1, !.blocked = TRUE,
                                    !.lastAttempt = t],
                  stored |-> TRUE]
            ELSE [verdict |-> "pass",
                  rec |-> [a EXCEPT !.count = a.count + 1,
                                    !.lastAttempt = t],
                  stored |-> TRUE]
       ELSE [verdict |-> "pass",
             rec |-> [a EXCEPT !.count = 1, !.lastAttempt = t],
             stored |-> TRUE]
RateCheck(a, t) ==
  IF a.blocked /\ (t - a.lastAttempt) < BLOCK_DURATION
  THEN [verdict |-> "blocked", rec |-> a, stored |-> FALSE]
  ELSE LET a1 == IF a.blocked /\ (t - a.lastAttempt) >= BLOCK_DURATION
                 THEN [a EXCEPT !.blocked = FALSE, !.count = 0]
                 ELSE a
       IN IF (t - a1.lastAttempt) < ATTEMPT_WINDOW
          THEN IF a1.count + 1 > MAX_ATTEMPTS
               THEN [verdict |-> "limit",
                     rec |-> [a1 EXCEPT !.count = a1.count + 1,
                                        !.blocked = TRUE,
                                        !.lastAttempt = t],
                     stored |-> TRUE]
               ELSE [verdict |-> "pass",
                     rec |-> [a1 EXCEPT !.count = a1.count + 1,
                                        !.lastAttempt = t],
                     stored |-> TRUE]
          ELSE [verdict |-> "pass",
                rec |-> [a1 EXCEPT !.count = 1, !.lastAttempt = t],
                stored |-> TRUE]

\* ------------------------------------------------------------ sockets
IdleSock == [pc |-> "idle", conn |-> "none", userId |-> None,
             token |-> NoToken]

\* the connection event has run for s (it passed the middleware)
Admitted(s) ==
  sock[s].pc \in {"setup_status", "setup_join", "ready", "setup_failed"}
\* s is an admitted connection whose transport is open
Live(s) == Admitted(s) /\ sock[s].conn = "open"
LiveOf(u) == {s \in Sockets : Live(s) /\ sock[s].userId = u}
\* a socket id that no connection holds: never taken, or given up inside the
\* middleware (such a connection was never registered and joined no room);
\* a handshake refused before its first await leaves no trace of its socket
Free(s) == sock[s].pc \in {"idle", "rejected", "failed", "dropped"}

\* Socket ids are opaque: a new connection takes the least id of S that was
\* never taken (Fresh), or the least id of S that no connection holds
\* (Recycled).
Fresh(S, s) ==
  /\ s \in S /\ sock[s].pc = "idle"
  /\ \A x \in S : sock[x].pc = "idle" => s <= x
Recycled(S, s) == s \in S /\ Free(s) /\ \A x \in S : Free(x) => s <= x


\* ------------------------------------------------------------ events
Event(type, u, status, id, conv, at, ids) ==
  [type |-> type, userId |-> u, status |-> status, id |-> id,
   conv |-> conv, at |-> at, ids |-> ids]
StatusChange(u, status) ==
  Event("user_status_change", u, status, None, None, 0, << >>)
ErrorEvent(msg) == Event("error", None, msg, None, None, 0, << >>)

\* io.to(room).emit / socket.emit: only an open transport carries a packet
Deliver(box, targets, ev) ==
  [s \in Sockets |->
     IF s \in targets /\ sock[s].conn = "open"
     THEN Append(box[s], ev) ELSE box[s]]

\* ------------------------------------------------------------ history
\* attemptLog keeps the verifiable attempts and the connection events of the
\* last ATTEMPT_WINDOW: an older entry cannot lie within one window of any
\* later attempt.
Prune(log, t) ==
  SelectSeq(log, LAMBDA e : t - e.t < ATTEMPT_WINDOW)
\* An entry keeps the token of the attempt, the attempt record of its user
\* as the middleware found it (before) and as it stood at the await or the
\* refusal (after), and what the middleware decided.
LogAttempt(u, tok, before, after, verdict) ==
  IF logging
  THEN Append(attemptLog, [kind |-> "attempt", userId |-> u, t |-> now,
                           token |-> tok, before |-> before,
                           after |-> after, verdict |-> verdict])
  ELSE attemptLog
LogConnection(u) ==
  IF logging
  THEN Append(attemptLog, [kind |-> "connection", userId |-> u, t |-> now,
                           token |-> NoToken,
                           before |-> NoRecord, after |-> NoRecord,
                           verdict |-> ""])
  ELSE attemptLog

\* ------------------------------------------------------------ disconnect
\* Array.from(connectedUsers.values()).includes(socket.userId): the values
\* are socket ids
HasOtherConnections(cu, u) ==
  u \in {cu[v] : v \in {w \in Users : cu[w] # None}}

\* The synchronous part of socket e's 'disconnect' handler, on registry
\* (cu, us): both deletes, then whether the offline UPDATE is awaited.
\* The handler exists only once the connection setup has installed it.
HandlerInstalled(e) == sock[e].pc = "ready"
DiscCu(e, cu) ==
  IF HandlerInstalled(e) THEN [cu EXCEPT ![sock[e].userId] = None] ELSE cu
DiscUs(e, us) ==
  IF HandlerInstalled(e) THEN [us EXCEPT ![e] = None] ELSE us
DiscAwaits(e, cu) ==
  HandlerInstalled(e) /\ ~HasOtherConnections(DiscCu(e, cu), sock[e].userId)

\* the user's last live connection closes with socket e
EndsEpisode(e) == Live(e) /\ LiveOf(sock[e].userId) = {e}
EpisodesAfter(e) ==
  IF EndsEpisode(e)
  THEN [episodes EXCEPT ![sock[e].userId] = @ + 1] ELSE episodes

\* ------------------------------------------------------------ store
\* SELECT ... FROM users u LEFT JOIN user_sessions s ON u.id = s.user_id
\* WHERE u.id = $1 AND (s.token_hash = $2 OR s.token_hash IS NULL)
\*   AND (s.expires_at > NOW() OR s.expires_at IS NULL): the number of rows.
\* A user without any session row joins to one all-NULL row, which passes.
SessionsOf(u) == {r \in dbSessions : r.userId = u}
SessionQuery(u, tok) ==
  IF SessionsOf(u) = {}
  THEN 1
  ELSE Cardinality({r \in SessionsOf(u) :
                      r.token = tok /\ r.token \notin dbExpired})

\* a contacts row: its id, user_id, contact_id and status (pending,
\* accepted, blocked)
ContactRow(id, u, v, st) ==
  [id |-> id, user |-> u, contact |-> v, status |-> st]
\* the contacts a query on the user_id column alone would find
ContactsOneWay(u) ==
  {r.contact : r \in {q \in dbContacts : q.user = u
                                          /\ q.status = "accepted"}}
\* SELECT DISTINCT ... WHERE (user_id = $1 OR contact_id = $1) AND status =
\* 'accepted': the other side of each accepted row that names u
ContactsOf(u) ==
  {IF r.user = u THEN r.contact ELSE r.user :
     r \in {q \in dbContacts : (q.user = u \/ q.contact = u)
                                /\ q.status = "accepted"}}

\* conversations the user participates in or whose group it is a member of
IsMember(c, u) == u \in dbParticipants[c] \/ u \in dbGroupMembers[c]
ConversationsOf(u) == {c \in Convs : IsMember(c, u)}

\* ------------------------------------------------------------ admission
\* io.use, up to its await: token, jwt.verify, rate limit, eviction of the
\* user's registered connection, then the session query is sent.
Attempt(s, tok) ==
  /\ Free(s)
  /\ UNCHANGED << now, inbox, bcast, storeVars, fixtureVars, restVars, msgVars >>
  /\ Len(attemptLog) < MaxLog
  /\ IF tok.kind = "none"
     THEN /\ sock' = sock
          /\ attemptLog' = LogAttempt(None, tok, NoRecord, NoRecord,
                                    "no token")
          /\ UNCHANGED << connectionAttempts, registryVars, rooms, discTasks,
                          episodes >>
     ELSE IF ~JwtVerify(tok)
     THEN /\ sock' = sock
          /\ attemptLog' = LogAttempt(None, tok, NoRecord, NoRecord,
                                    "unverified")
          /\ UNCHANGED << connectionAttempts, registryVars, rooms, discTasks,
                          episodes >>
     ELSE LET u == tok.userId
              rc == RateCheck(GetAttempts(u), now)
              e == connectedUsers[u]
              evict == e # None /\ e # s
              close == evict /\ sock[e].conn = "open"
          IN /\ connectionAttempts' =
                  IF rc.stored
                  THEN [connectionAttempts EXCEPT ![u] = rc.rec]
                  ELSE connectionAttempts
             /\ attemptLog' = LogAttempt(u, tok, connectionAttempts[u],
                                         connectionAttempts'[u], rc.verdict)
             /\ IF rc.verdict # "pass"
                THEN /\ sock' = sock
                     /\ UNCHANGED << registryVars, rooms, discTasks,
                                     episodes >>
                ELSE /\ sock' =
                          [x \in Sockets |->
                             IF x = s
                             THEN [pc |-> "auth", conn |-> "open",
                                   userId |-> u, token |-> tok]
                             ELSE IF close /\ x = e
                             THEN [sock[e] EXCEPT !.conn = "closed"]
                             ELSE sock[x]]
                     /\ connectedUsers' =
                          IF evict
                          THEN [connectedUsers EXCEPT ![u] = None]
                          ELSE connectedUsers
                     /\ userSockets' =
                          IF evict
                          THEN [userSockets EXCEPT ![e] = None]
                          ELSE userSockets
                     /\ rooms' = IF close THEN [rooms EXCEPT ![e] = {}]
                                 ELSE rooms
                     /\ discTasks' =
                          IF close /\ DiscAwaits(e, connectedUsers)
                          THEN discTasks \cup {e} ELSE discTasks
                     /\ episodes' = IF close THEN EpisodesAfter(e)
                                    ELSE episodes

\* io.on('connection'), up to its first await: the attempt record is reset
\* and the connection is registered.
Register(cu, u, s) == [cu EXCEPT ![u] = s]

\* a connection that ended inside the middleware: refused by next(err), or
\* gone before next() could raise the connection event
Gone(how, u) ==
  [pc |-> how, conn |-> "none", userId |-> u, token |-> NoToken]

\* io.use after the session query, and the connection event that next() raises
AuthResolve(s) ==
  /\ sock[s].pc = "auth"
  /\ UNCHANGED << now, rooms, inbox, discTasks, bcast, storeVars,
                  fixtureVars, restVars, msgVars, episodes >>
  /\ LET u == sock[s].userId
         a == connectionAttempts[u]
     IN IF SessionQuery(u, sock[s].token) = 0
        THEN /\ sock' = [sock EXCEPT ![s] = Gone("rejected", u)]
             /\ UNCHANGED << connectionAttempts, registryVars, attemptLog >>
        ELSE IF sock[s].conn # "open"
        THEN /\ sock' = [sock EXCEPT ![s] = Gone("dropped", u)]
             /\ UNCHANGED << connectionAttempts, registryVars, attemptLog >>
        ELSE /\ sock' = [sock EXCEPT ![s].pc = "setup_status"]
             /\ connectionAttempts' =
                  IF a.present
                  THEN [connectionAttempts EXCEPT
                          ![u] = [a EXCEPT !.count = 0, !.blocked = FALSE]]
                  ELSE connectionAttempts
             /\ connectedUsers' = Register(connectedUsers, u, s)
             /\ userSockets' = [userSockets EXCEPT ![s] = u]
             /\ attemptLog' = LogConnection(u)

\* the session query rejects: the catch of io.use refuses the connection
AuthStoreFail(s) ==
  /\ sock[s].pc = "auth"
  /\ sock' = [sock EXCEPT ![s] = Gone("failed", sock[s].userId)]
  /\ UNCHANGED << now, connectionAttempts, registryVars, rooms, inbox,
                  discTasks, bcast, storeVars, fixtureVars, restVars, msgVars,
                  attemptLog, episodes >>

\* after UPDATE users SET status = 'online': the online broadcast starts and
\* joinUserConversations sends its query
SetupStatusDone(s) ==
  /\ sock[s].pc = "setup_status"
  /\ sock' = [sock EXCEPT ![s].pc = "setup_join"]
  /\ dbStatus' = [dbStatus EXCEPT ![sock[s].userId] = "online"]
  /\ bcast' = bcast \cup {[userId |-> sock[s].userId, status |-> "online",
                            src |-> s, pc |-> "query"]}
  /\ UNCHANGED << now, connectionAttempts, registryVars, rooms, inbox,
                  discTasks, dbSessions, dbExpired, issued,
                  dbGroupMembers,
                  fixtureVars, restVars, msgVars, attemptLog, episodes >>

\* after the membership query: the rooms are joined and the event handlers
\* (send_message ... disconnect) are installed
SetupJoinDone(s) ==
  /\ sock[s].pc = "setup_join"
  /\ sock' = [sock EXCEPT ![s].pc = "ready"]
  /\ rooms' = [rooms EXCEPT ![s] = @ \cup ConversationsOf(sock[s].userId)]
  /\ UNCHANGED << now, connectionAttempts, registryVars, inbox, discTasks,
                  bcast, storeVars, fixtureVars, restVars, msgVars, attemptLog,
                  episodes >>

\* UPDATE users SET status = 'online' rejects: the catch of the connection
\* event calls socket.disconnect(true).  No 'disconnect' listener is installed
\* yet, so the registry keeps its entries; no room was joined.
SetupStatusFail(s) ==
  /\ sock[s].pc = "setup_status"
  /\ sock' = [sock EXCEPT ![s] = [@ EXCEPT !.pc = "setup_failed",
                                           !.conn = "closed"]]
  /\ rooms' = [rooms EXCEPT ![s] = {}]
  /\ episodes' = EpisodesAfter(s)
  /\ UNCHANGED << now, connectionAttempts, registryVars, inbox, discTasks,
                  bcast, storeVars, fixtureVars, restVars, msgVars, attemptLog >>

\* a membership failure that reaches the outer catch of the connection event
SetupJoinFailFatal(s) ==
  /\ sock[s].pc = "setup_join"
  /\ sock' = [sock EXCEPT ![s] = [@ EXCEPT !.pc = "setup_failed",
                                           !.conn = "closed"]]
  /\ rooms' = [rooms EXCEPT ![s] = {}]
  /\ episodes' = EpisodesAfter(s)
  /\ UNCHANGED << now, connectionAttempts, registryVars, inbox, discTasks,
                  bcast, storeVars, fixtureVars, restVars, msgVars, attemptLog >>
\* the membership query of joinUserConversations rejects: the inner catch
\* logs it, no room is joined and the event handlers are installed
SetupJoinFail(s) ==
  /\ sock[s].pc = "setup_join"
  /\ sock' = [sock EXCEPT ![s].pc = "ready"]
  /\ UNCHANGED << now, connectionAttempts, registryVars, rooms, inbox,
                  discTasks, bcast, storeVars, fixtureVars, restVars, msgVars,
                  attemptLog, episodes >>

\* the transport of s closes (client disconnect, network): socket.io leaves
\* the rooms and raises 'disconnect'
ClientClose(s) ==
  /\ sock[s].conn = "open"
  /\ sock' = [sock EXCEPT ![s].conn = "closed"]
  /\ rooms' = [rooms EXCEPT ![s] = {}]
  /\ connectedUsers' = DiscCu(s, connectedUsers)
  /\ userSockets' = DiscUs(s, userSockets)
  /\ discTasks' = IF DiscAwaits(s, connectedUsers)
                  THEN discTasks \cup {s} ELSE discTasks
  /\ episodes' = EpisodesAfter(s)
  /\ UNCHANGED << now, connectionAttempts, inbox, bcast, storeVars,
                  fixtureVars, restVars, msgVars, attemptLog >>

\* the disconnect handler after UPDATE users SET status = 'offline'
DiscUpdateDone(s) ==
  /\ s \in discTasks
  /\ discTasks' = discTasks \ {s}
  /\ dbStatus' = [dbStatus EXCEPT ![sock[s].userId] = "offline"]
  /\ bcast' = bcast \cup {[userId |-> sock[s].userId, status |-> "offline",
                            src |-> s, pc |-> "query"]}
  /\ UNCHANGED << now, connectionAttempts, registryVars, sock, rooms, inbox,
                  dbSessions, dbExpired, issued,
                  dbGroupMembers, fixtureVars, restVars,
                  msgVars, attemptLog, episodes >>

\* UPDATE users SET status = 'offline' of the disconnect handler rejects:
\* its catch logs the error; the status stays and nothing is broadcast
DiscUpdateFail(s) ==
  /\ s \in discTasks
  /\ discTasks' = discTasks \ {s}
  /\ UNCHANGED << now, connectionAttempts, registryVars, sock, rooms, inbox,
                  bcast, storeVars, fixtureVars, restVars, msgVars,
                  attemptLog, episodes >>

\* broadcastUserStatus after its contacts query: one event to the registered
\* socket of each accepted contact
StatusTargets(u) ==
  {connectedUsers[c] : c \in {d \in ContactsOf(u) : connectedUsers[d] # None}}
BroadcastDeliver(b) ==
  /\ b \in bcast /\ b.pc = "query"
  /\ bcast' = bcast \ {b}
  /\ inbox' = Deliver(inbox, StatusTargets(b.userId),
                      StatusChange(b.userId, b.status))
  /\ UNCHANGED << now, connectionAttempts, registryVars, sock, rooms,
                  discTasks, storeVars, fixtureVars, restVars, msgVars, attemptLog,
                  episodes >>

\* the contacts query of broadcastUserStatus rejects: its catch logs the
\* error and nothing is emitted (the call is kept, marked failed)
BroadcastFail(b) ==
  /\ b \in bcast /\ b.pc = "query"
  /\ bcast' = (bcast \ {b}) \cup {[b EXCEPT !.pc = "failed"]}
  /\ UNCHANGED << now, connectionAttempts, registryVars, sock, rooms, inbox,
                  discTasks, storeVars, fixtureVars, restVars, msgVars,
                  attemptLog, episodes >>

\* ------------------------------------------------------------ rooms
\* socket.on('join_conversation') / socket.on('leave_conversation')
JoinConversation(s, c) ==
  /\ HandlerInstalled(s) /\ sock[s].conn = "open"
  /\ rooms' = [rooms EXCEPT ![s] = @ \cup {c}]
  /\ UNCHANGED << lifeVars, inbox, storeVars, fixtureVars, restVars, msgVars >>
LeaveConversation(s, c) ==
  /\ HandlerInstalled(s) /\ sock[s].conn = "open"
  /\ rooms' = [rooms EXCEPT ![s] = @ \ {c}]
  /\ UNCHANGED << lifeVars, inbox, storeVars, fixtureVars, restVars, msgVars >>

\* the connections an emit to room conversation_<c> reaches
RoomOf(c) == {s \in Sockets : c \in rooms[s] /\ sock[s].conn = "open"}
\* an emit that leaves out the emitting socket
IoToOthers(c, s) == RoomOf(c) \ {s}
\* an emit that reaches only the subscribers the store knows as members
IoToMembers(c, s) ==
  {x \in RoomOf(c) :
     sock[x].userId \in dbParticipants[c] \cup dbGroupMembers[c]}
\* io.to(room): everyone in the room
IoTo(c, s) == RoomOf(c)
\* an emit that also comes back to the emitting socket
SocketToSelf(c, s) == RoomOf(c)
\* socket.to(room): everyone in the room but the emitting socket
SocketTo(c, s) == RoomOf(c) \ {s}
Emitted(type, id, c, s, subs) ==
  Append(roomEmits, [type |-> type, id |-> id, conv |-> c, src |-> s,
                     subs |-> subs])

\* ------------------------------------------------------------ send_message
\* how many events the handlers have taken in, over all sockets
RECURSIVE TotalLen(_, _)
TotalLen(tasks, S) ==
  IF S = {} THEN 0
  ELSE LET s == CHOOSE x \in S : TRUE
       IN Len(tasks[s]) + TotalLen(tasks, S \ {s})
NumSends == TotalLen(sendTasks, Sockets)
SendTask(c, content, pc) ==
  [conv |-> c, content |-> content, pc |-> pc, id |-> None, at |-> 0]
NewMessage(u, k) ==
  Event("new_message", u, k.content, k.id, k.conv, k.at, << >>)

\* an access query that only looks for the conversation
HasAccessToAny(c, u) == c \in Convs
\* the access query of handleSendMessage: the conversation exists and the
\* user is one of its participants or a member of its group
HasAccess(c, u) == c \in Convs /\ IsMember(c, u)

\* socket.on('send_message') up to the first await of handleSendMessage
SendMessage(s, c, content) ==
  /\ HandlerInstalled(s) /\ sock[s].conn = "open"
  /\ NumSends < MaxSends
  /\ IF c = None \/ content = ""
     THEN /\ sendTasks' = [sendTasks EXCEPT
                             ![s] = Append(@, SendTask(c, content, "invalid"))]
          /\ inbox' = Deliver(inbox, {s},
                 ErrorEvent("Conversation ID and content are required"))
     ELSE /\ sendTasks' = [sendTasks EXCEPT
                             ![s] = Append(@, SendTask(c, content, "access"))]
          /\ inbox' = inbox
  /\ UNCHANGED << lifeVars, rooms, storeVars, fixtureVars, restVars, readTasks,
                  dbMessages, dbReads, dbUpdatedAt, roomEmits >>

\* after the access query
SendAccessDone(s, i) ==
  /\ i \in 1..Len(sendTasks[s]) /\ sendTasks[s][i].pc = "access"
  /\ IF HasAccess(sendTasks[s][i].conv, sock[s].userId)
     THEN /\ sendTasks' = [sendTasks EXCEPT ![s][i].pc = "insert"]
          /\ inbox' = inbox
     ELSE /\ sendTasks' = [sendTasks EXCEPT ![s][i].pc = "denied"]
          /\ inbox' = Deliver(inbox, {s},
                 ErrorEvent("Access denied to this conversation"))
  /\ UNCHANGED << lifeVars, rooms, storeVars, fixtureVars, restVars, readTasks,
                  dbMessages, dbReads, dbUpdatedAt, roomEmits >>

\* after INSERT INTO messages ... RETURNING id, created_at
SendInsertDone(s, i) ==
  /\ i \in 1..Len(sendTasks[s]) /\ sendTasks[s][i].pc = "insert"
  /\ LET k == sendTasks[s][i]
         row == [id |-> Len(dbMessages) + 1, conv |-> k.conv,
                 sender |-> sock[s].userId, content |-> k.content,
                 at |-> now]
     IN /\ dbMessages' = Append(dbMessages, row)
        /\ sendTasks' = [sendTasks EXCEPT
                           ![s][i] = [k EXCEPT !.pc = "sender",
                                               !.id = row.id, !.at = row.at]]
  /\ UNCHANGED << lifeVars, rooms, inbox, storeVars, fixtureVars, restVars, readTasks,
                  dbReads, dbUpdatedAt, roomEmits >>

\* after the sender query: the new_message emit to the room, then the
\* UPDATE of the conversation is sent
SendFanout(s, i) ==
  /\ i \in 1..Len(sendTasks[s]) /\ sendTasks[s][i].pc = "sender"
  /\ LET k == sendTasks[s][i]
     IN /\ inbox' = Deliver(inbox, IoTo(k.conv, s),
                            NewMessage(sock[s].userId, k))
        /\ roomEmits' = Emitted("new_message", k.id, k.conv, s,
                                RoomOf(k.conv))
        /\ sendTasks' = [sendTasks EXCEPT ![s][i].pc = "touch"]
  /\ UNCHANGED << lifeVars, rooms, storeVars, fixtureVars, restVars, readTasks,
                  dbMessages, dbReads, dbUpdatedAt >>

\* after UPDATE conversations SET updated_at = CURRENT_TIMESTAMP
SendTouchDone(s, i) ==
  /\ i \in 1..Len(sendTasks[s]) /\ sendTasks[s][i].pc = "touch"
  /\ dbUpdatedAt' = [dbUpdatedAt EXCEPT ![sendTasks[s][i].conv] = now]
  /\ sendTasks' = [sendTasks EXCEPT ![s][i].pc = "done"]
  /\ UNCHANGED << lifeVars, rooms, inbox, storeVars, fixtureVars, restVars, readTasks,
                  dbMessages, dbReads, roomEmits >>

\* socket.emit: to the client of this socket
SocketEmitAll(s) == Sockets
SocketEmit(s) == {s}
\* where a call stands once one of its queries has rejected
FailedPc == [access |-> "failed_access", insert |-> "failed_insert",
             sender |-> "failed_sender", touch |-> "failed_touch"]
\* a store query of handleSendMessage rejects (or the sender query finds no
\* row): the catch of socket.on('send_message') reports to the sender
SendStoreFail(s, i) ==
  /\ i \in 1..Len(sendTasks[s])
  /\ sendTasks[s][i].pc \in DOMAIN FailedPc
  /\ sendTasks' = [sendTasks EXCEPT ![s][i].pc = FailedPc[@]]
  /\ inbox' = Deliver(inbox, SocketEmit(s),
                      ErrorEvent("Failed to send message"))
  /\ UNCHANGED << lifeVars, rooms, storeVars, fixtureVars, restVars, readTasks,
                  dbMessages, dbReads, dbUpdatedAt, roomEmits >>

\* A send_message packet that arrives while the connection event is still at
\* one of its awaits: socket.on('send_message') has not run yet, the event
\* has no listener and socket.io drops it.  The call is kept as "unheard".
SendUnheard(s, c, content) ==
  /\ sock[s].pc \in {"setup_status", "setup_join"} /\ sock[s].conn = "open"
  /\ NumSends < MaxSends
  /\ sendTasks' = [sendTasks EXCEPT
                     ![s] = Append(@, SendTask(c, content, "unheard"))]
  /\ UNCHANGED << lifeVars, rooms, inbox, storeVars, fixtureVars, restVars, readTasks,
                  dbMessages, dbReads, dbUpdatedAt, roomEmits >>

\* ---------------------------------------------------- mark_messages_read
NumReads == TotalLen(readTasks, Sockets)
\* a messageIds value that is missing or not an array
NotAList == << None >>
MessageIds == {dbMessages[j].id : j \in 1..Len(dbMessages)}
\* a call under way, at the insert of ids[k]
ReadTask(c, ids, pc) ==
  [conv |-> c, ids |-> ids, k |-> 1, pc |-> pc]
MessagesRead(u, c, ids) ==
  Event("messages_read", u, "", None, c, 0, ids)
HasRead(reads, m, u) ==
  \E j \in 1..Len(reads) : reads[j].message = m /\ reads[j].user = u
\* the insert without its ON CONFLICT clause
InsertReadAgain(reads, m, u) ==
  Append(reads, [message |-> m, user |-> u])
\* INSERT INTO message_reads ... ON CONFLICT (message_id, user_id) DO NOTHING
InsertRead(reads, m, u) ==
  IF HasRead(reads, m, u) THEN reads
  ELSE Append(reads, [message |-> m, user |-> u])

\* socket.on('mark_messages_read') up to the first await of
\* handleMarkMessagesRead; an empty list has no insert to await
MarkMessagesRead(s, c, ids) ==
  /\ HandlerInstalled(s) /\ sock[s].conn = "open"
  /\ NumReads < MaxReads
  /\ IF c = None \/ ids = NotAList
     THEN /\ readTasks' = [readTasks EXCEPT
                             ![s] = Append(@, ReadTask(c, ids, "ignored"))]
          /\ UNCHANGED << inbox, roomEmits >>
     ELSE IF ids = << >>
     THEN /\ readTasks' = [readTasks EXCEPT
                             ![s] = Append(@, ReadTask(c, ids, "done"))]
          /\ inbox' = Deliver(inbox, SocketTo(c, s),
                              MessagesRead(sock[s].userId, c, ids))
          /\ roomEmits' = Emitted("messages_read", None, c, s, RoomOf(c))
     ELSE /\ readTasks' = [readTasks EXCEPT
                             ![s] = Append(@, ReadTask(c, ids, "insert"))]
          /\ UNCHANGED << inbox, roomEmits >>
  /\ UNCHANGED << lifeVars, rooms, storeVars, fixtureVars, restVars, sendTasks,
                  dbMessages, dbReads, dbUpdatedAt >>

\* after one INSERT INTO message_reads: a message id without a messages row
\* violates the foreign key and the handler's catch ends the call; after the
\* last insert the messages_read emit to the rest of the room
ReadInsertDone(s, i) ==
  /\ i \in 1..Len(readTasks[s]) /\ readTasks[s][i].pc = "insert"
  /\ LET r == readTasks[s][i]
         m == r.ids[r.k]
     IN IF m \notin MessageIds
        THEN /\ readTasks' = [readTasks EXCEPT ![s][i].pc = "failed"]
             /\ UNCHANGED << dbReads, inbox, roomEmits >>
        ELSE /\ dbReads' = InsertRead(dbReads, m, sock[s].userId)
             /\ IF r.k < Len(r.ids)
                THEN /\ readTasks' = [readTasks EXCEPT ![s][i].k = r.k + 1]
                     /\ UNCHANGED << inbox, roomEmits >>
                ELSE /\ readTasks' = [readTasks EXCEPT ![s][i].pc = "done"]
                     /\ inbox' = Deliver(inbox, SocketTo(r.conv, s),
                            MessagesRead(sock[s].userId, r.conv, r.ids))
                     /\ roomEmits' = Emitted("messages_read", None, r.conv,
                                             s, RoomOf(r.conv))
  /\ UNCHANGED << lifeVars, rooms, storeVars, fixtureVars, restVars, sendTasks,
                  dbMessages, dbUpdatedAt >>

\* an INSERT INTO message_reads rejects for another reason (the store fails
\* the query; the messages row went meanwhile with its group, whose DELETE
\* cascades to conversations, messages and message_reads): the handler's
\* catch ends the call; the markers written so far stay, nothing is emitted
ReadStoreFail(s, i) ==
  /\ i \in 1..Len(readTasks[s]) /\ readTasks[s][i].pc = "insert"
  /\ readTasks' = [readTasks EXCEPT ![s][i].pc = "failed"]
  /\ UNCHANGED << lifeVars, rooms, inbox, storeVars, fixtureVars, restVars,
                  sendTasks, dbMessages, dbReads, dbUpdatedAt, roomEmits >>

\* ------------------------------------------------------------ typing
\* An event payload is << >> when the client sent the event without one
\* (data is undefined), and << c >> for an object whose conversationId is c.
NoPayload == << >>
\* the process has not been ended by an uncaught exception
Running == \A s \in Sockets : sock[s].pc # "crashed"
NumTypings ==
  Cardinality({j \in 1..Len(roomEmits) :
                 roomEmits[j].type \in {"user_typing", "user_stop_typing"}})
\* the calls of every socket that stand at one of the awaits (of
\* handleSendMessage, of handleMarkMessagesRead) are lost
LostCalls(tasks, awaits) ==
  [x \in Sockets |->
     [i \in 1..Len(tasks[x]) |->
        IF tasks[x][i].pc \in awaits
        THEN [tasks[x][i] EXCEPT !.pc = "lost"] ELSE tasks[x][i]]]
\* An exception thrown out of a listener that socket.io calls from
\* process.nextTick is uncaught, and nothing handles 'uncaughtException':
\* the process exits.  Every transport closes, the maps and the handlers
\* under way are gone with the process; the store keeps what it has.
ProcessExit ==
  /\ sock' = [x \in Sockets |->
                IF sock[x].pc = "idle" THEN sock[x]
                ELSE [sock[x] EXCEPT
                        !.pc = "crashed",
                        !.conn = IF @ = "open" THEN "closed" ELSE @]]
  /\ connectionAttempts' = [u \in Users |-> NoRecord]
  /\ connectedUsers' = [u \in Users |-> None]
  /\ userSockets' = [x \in Sockets |-> None]
  /\ rooms' = [x \in Sockets |-> {}]
  /\ discTasks' = {}
  /\ bcast' = {}
  /\ episodes' = [u \in Users |->
                    IF LiveOf(u) # {} THEN episodes[u] + 1 ELSE episodes[u]]
  /\ tokenCache' = {}
  /\ recentLogins' = [n \in DOMAIN recentLogins |-> None]
  /\ restTasks' = [i \in 1..Len(restTasks) |->
                     IF restTasks[i].pc \in {"done", "refused", "failed"}
                     THEN restTasks[i]
                     ELSE [restTasks[i] EXCEPT !.pc = "lost"]]
  /\ sendTasks' = LostCalls(sendTasks,
                            {"access", "insert", "sender", "touch"})
  /\ readTasks' = LostCalls(readTasks, {"insert"})
  /\ UNCHANGED << now, inbox, storeVars, fixtureVars, dbMessages, dbReads,
                  dbUpdatedAt, roomEmits, attemptLog, jwtExpired, dbPassed,
                  nodePassed, contactSeq >>

\* socket.on('typing_start') / socket.on('typing_stop'), type user_typing /
\* user_stop_typing: data.conversationId is read with no check and no try;
\* without a payload the read throws a TypeError out of the listener
Typing(s, d, type) ==
  /\ Running /\ HandlerInstalled(s) /\ sock[s].conn = "open"
  /\ NumTypings < MaxTypings
  /\ IF d = NoPayload
     THEN ProcessExit
     ELSE /\ inbox' = Deliver(inbox, SocketTo(d[1], s),
                 Event(type, sock[s].userId, "", None, d[1], 0, << >>))
          /\ roomEmits' = Emitted(type, None, d[1], s, RoomOf(d[1]))
          /\ UNCHANGED << lifeVars, rooms, storeVars, fixtureVars, restVars, sendTasks,
                          readTasks, dbMessages, dbReads, dbUpdatedAt >>

\* send_message without a payload: the destructuring of handleSendMessage
\* throws inside the async function and the catch of the listener reports it
SendNoPayload(s) ==
  /\ Running /\ HandlerInstalled(s) /\ sock[s].conn = "open"
  /\ NumSends < MaxSends
  /\ sendTasks' = [sendTasks EXCEPT
                     ![s] = Append(@, SendTask(None, "", "failed_payload"))]
  /\ inbox' = Deliver(inbox, SocketEmit(s),
                      ErrorEvent("Failed to send message"))
  /\ UNCHANGED << lifeVars, rooms, storeVars, fixtureVars, restVars, readTasks,
                  dbMessages, dbReads, dbUpdatedAt, roomEmits >>

\* mark_messages_read without a payload: the destructuring of
\* handleMarkMessagesRead throws and the catch of the listener logs it
MarkReadNoPayload(s) ==
  /\ Running /\ HandlerInstalled(s) /\ sock[s].conn = "open"
  /\ NumReads < MaxReads
  /\ readTasks' = [readTasks EXCEPT
                     ![s] = Append(@, ReadTask(None, NotAList, "failed"))]
  /\ UNCHANGED << lifeVars, rooms, inbox, storeVars, fixtureVars, restVars, sendTasks,
                  dbMessages, dbReads, dbUpdatedAt, roomEmits >>

\* ------------------------------------------------------------ clock
\* time passes; the attempt history forgets what left the window
Tick ==
  /\ now + TickStep <= StartTime + MaxElapsed
  /\ now' = now + TickStep
  /\ attemptLog' = Prune(attemptLog, now')
  /\ UNCHANGED << connectionAttempts, registryVars, sock, rooms, inbox,
                  discTasks, bcast, storeVars, fixtureVars, restVars, msgVars,
                  episodes >>

\* a long idle stretch: one period of the cleanup timer passes
Pause ==
  /\ now + BLOCK_DURATION <= StartTime + MaxIdle
  /\ now' = now + BLOCK_DURATION
  /\ attemptLog' = Prune(attemptLog, now')
  /\ UNCHANGED << connectionAttempts, registryVars, sock, rooms, inbox,
                  discTasks, bcast, storeVars, fixtureVars, restVars, msgVars,
                  episodes >>

\* a cleanup that deletes every record older than half a block
CleanupEarly ==
  /\ connectionAttempts' =
       [u \in Users |->
          IF connectionAttempts[u].present
             /\ now - connectionAttempts[u].lastAttempt > BLOCK_DURATION \div 2
          THEN NoRecord ELSE connectionAttempts[u]]
  /\ UNCHANGED << now, registryVars, sock, rooms, inbox, discTasks, bcast,
                  storeVars, fixtureVars, restVars, msgVars, attemptLog, episodes >>
\* the setInterval callback: every record whose last attempt is more than
\* BLOCK_DURATION * 2 old is deleted
Cleanup ==
  /\ connectionAttempts' =
       [u \in Users |->
          IF connectionAttempts[u].present
             /\ now - connectionAttempts[u].lastAttempt > BLOCK_DURATION * 2
          THEN NoRecord ELSE connectionAttempts[u]]
  /\ UNCHANGED << now, registryVars, sock, rooms, inbox, discTasks, bcast,
                  storeVars, fixtureVars, restVars, msgVars, attemptLog, episodes >>

\* ------------------------------------------------------------ REST
\* A request under way: the route, the user of its token (for a login: the
\* username given), the token, the group (as the conversation behind it),
\* a numeric argument (member id, contact id, request id), a text argument
\* (status, password), the contacts row picked by a SELECT, and the await
\* the request is at ("done": 2xx sent, "refused": 4xx sent, "failed": 500).
RestTask(op, u, tok, c, arg, text, pc) ==
  [op |-> op, userId |-> u, token |-> tok, conv |-> c, arg |-> arg,
   text |-> text, row |-> None, pc |-> pc]
SessionRow(k) == [userId |-> k.userId, token |-> k.token]
\* request i is of route op and stands at await pc
At(i, op, pc) ==
  /\ i \in 1..Len(restTasks)
  /\ restTasks[i].op = op /\ restTasks[i].pc = pc
\* no route writes these
RestFrame ==
  UNCHANGED << lifeVars, rooms, inbox, msgVars, dbParticipants, logging,
               dbExpired, dbPassed, jwtExpired, nodePassed >>

\* a user id without a users row
NoUser == 9

\* Where the route behind authMiddleware stands once next() has called it:
\* at its first await, or over when its synchronous validation refuses.
RouteStart(op, u, arg, text) ==
  CASE op = "logout" -> "delete"
    [] op = "leave" -> "owner"
    [] op = "profile" ->
         IF text \in {"online", "offline", "away", "busy"}
         THEN "update" ELSE "refused"
    [] op = "remove_member" -> "caller"
    [] op = "contact_request" ->
         IF arg = None \/ arg = u THEN "refused" ELSE "user"
    [] op = "contact_block" -> "user"
    [] op \in {"contact_accept", "contact_decline", "contact_cancel"} ->
         "select"
    [] op \in {"contact_remove", "contact_unblock"} -> "delete"

\* authMiddleware up to its await, for a request that carries token tok: a
\* cache entry younger than CACHE_DURATION (longer than any run here) passes
\* the request on with the cached user, without jwt.verify or session query;
\* otherwise jwt.verify, then the session query is sent.  A request without
\* a token or with one that fails jwt.verify gets 401 and changes nothing.
AuthMiddleware(op, tok, c, arg, text) ==
  /\ tok \in tokenCache \/ JwtVerify(tok)
  /\ Len(restTasks) < MaxRest
  /\ restTasks' =
       Append(restTasks,
              RestTask(op, tok.userId, tok, c, arg, text,
                       IF tok \in tokenCache
                       THEN RouteStart(op, tok.userId, arg, text)
                       ELSE "auth"))
  /\ UNCHANGED << tokenCache, recentLogins, contactSeq, dbContacts, dbStatus,
                  dbSessions, issued, dbGroupMembers >>
  /\ RestFrame

\* authMiddleware after its session query: no row, 401; a row with
\* new Date() > new Date(expires_at), the DELETE of the row is sent;
\* otherwise the token is cached and the route starts
AuthMiddlewareDone(i) ==
  /\ i \in 1..Len(restTasks) /\ restTasks[i].pc = "auth"
  /\ LET k == restTasks[i]
     IN IF SessionRow(k) \notin dbSessions
        THEN /\ tokenCache' = tokenCache \ {k.token}
             /\ restTasks' = [restTasks EXCEPT ![i].pc = "refused"]
        ELSE IF k.token \in nodePassed
        THEN /\ tokenCache' = tokenCache
             /\ restTasks' = [restTasks EXCEPT ![i].pc = "expired"]
        ELSE /\ tokenCache' = tokenCache \cup {k.token}
             /\ restTasks' =
                  [restTasks EXCEPT
                     ![i].pc = RouteStart(k.op, k.userId, k.arg, k.text)]
  /\ UNCHANGED << recentLogins, contactSeq, dbContacts, dbStatus, dbSessions,
                  issued, dbGroupMembers >>
  /\ RestFrame

\* authMiddleware after the DELETE of an expired session row: 401
AuthExpiredDone(i) ==
  /\ i \in 1..Len(restTasks) /\ restTasks[i].pc = "expired"
  /\ dbSessions' = dbSessions \ {SessionRow(restTasks[i])}
  /\ tokenCache' = tokenCache \ {restTasks[i].token}
  /\ restTasks' = [restTasks EXCEPT ![i].pc = "refused"]
  /\ UNCHANGED << recentLogins, contactSeq, dbContacts, dbStatus, issued,
                  dbGroupMembers >>
  /\ RestFrame

\* ------------------------------------------------------------ login
\* the addresses clients log in from (req.ip)
ClientIPs == {1, 2}

\* POST /login with username name (of a user, or NoUser) and password pw
\* ("right", "wrong", or "" when the field is missing) from address ip, up
\* to its first await: 429 when a login of this name from this address
\* was let through less than LOGIN_COOLDOWN ago; otherwise the time is
\* noted, a missing password gets 400, and the SELECT of the user is sent
Login(name, ip, pw) ==
  /\ Len(restTasks) < MaxRest
  /\ IF recentLogins[<< name, ip >>] # None
        /\ now - recentLogins[<< name, ip >>] < LOGIN_COOLDOWN
     THEN /\ restTasks' = Append(restTasks,
                 RestTask("login", name, NoToken, None, None, pw, "refused"))
          /\ recentLogins' = recentLogins
     ELSE /\ recentLogins' = [recentLogins EXCEPT ![<< name, ip >>] = now]
          /\ restTasks' = Append(restTasks,
                 RestTask("login", name, NoToken, None, None, pw,
                          IF pw = "" THEN "refused" ELSE "select"))
  /\ UNCHANGED << tokenCache, contactSeq, dbContacts, dbStatus, dbSessions,
                  issued, dbGroupMembers >>
  /\ RestFrame

\* after the SELECT of the user: no row, 401; otherwise bcrypt.compare is
\* awaited
LoginSelectDone(i) ==
  /\ At(i, "login", "select")
  /\ restTasks' = [restTasks EXCEPT
                     ![i].pc = IF restTasks[i].userId \in Users
                               THEN "compare" ELSE "refused"]
  /\ UNCHANGED << tokenCache, recentLogins, contactSeq, dbContacts, dbStatus,
                  dbSessions, issued, dbGroupMembers >>
  /\ RestFrame

\* after bcrypt.compare: a wrong password, 401; otherwise the DELETE of the
\* user's expired sessions is sent
LoginCompareDone(i) ==
  /\ At(i, "login", "compare")
  /\ restTasks' = [restTasks EXCEPT
                     ![i].pc = IF restTasks[i].text = "right"
                               THEN "cleanup" ELSE "refused"]
  /\ UNCHANGED << tokenCache, recentLogins, contactSeq, dbContacts, dbStatus,
                  dbSessions, issued, dbGroupMembers >>
  /\ RestFrame

\* after DELETE FROM user_sessions ... expires_at < NOW(): the token is
\* signed, with the second of Date.now() as its iat, and the INSERT of its
\* session row is sent
LoginCleanupDone(i) ==
  /\ At(i, "login", "cleanup")
  /\ dbSessions' = {r \in dbSessions :
                      ~(r.userId = restTasks[i].userId
                        /\ r.token \in dbPassed)}
  /\ restTasks' =
       [restTasks EXCEPT
          ![i].token = Jwt(restTasks[i].userId, now \div 1000),
          ![i].pc = "insert"]
  /\ UNCHANGED << tokenCache, recentLogins, contactSeq, dbContacts, dbStatus,
                  issued, dbGroupMembers >>
  /\ RestFrame

\* after INSERT INTO user_sessions: the UPDATE of the status is sent.  (Every
\* query on user_sessions selects by user_id and token_hash: rows that agree
\* in both, of two logins signed in the same second, are one row to them.)
LoginInsertDone(i) ==
  /\ At(i, "login", "insert")
  /\ dbSessions' = dbSessions \cup {SessionRow(restTasks[i])}
  /\ restTasks' = [restTasks EXCEPT ![i].pc = "status"]
  /\ UNCHANGED << tokenCache, recentLogins, contactSeq, dbContacts, dbStatus,
                  issued, dbGroupMembers >>
  /\ RestFrame

\* after UPDATE users SET status = 'online': the response hands the token
\* to the client, which can present it from now on
LoginStatusDone(i) ==
  /\ At(i, "login", "status")
  /\ dbStatus' = [dbStatus EXCEPT ![restTasks[i].userId] = "online"]
  /\ issued' = issued \cup {restTasks[i].token}
  /\ restTasks' = [restTasks EXCEPT ![i].pc = "done"]
  /\ UNCHANGED << tokenCache, recentLogins, contactSeq, dbContacts,
                  dbSessions, dbGroupMembers >>
  /\ RestFrame

\* ------------------------------------------------------------ logout
\* POST /logout of user u with token tok arrives at authMiddleware
Logout(u, tok) ==
  /\ tok.userId = u
  /\ AuthMiddleware("logout", tok, None, None, "")

\* after DELETE FROM user_sessions of the token's row: the UPDATE of the
\* status is sent
LogoutDeleteDone(i) ==
  /\ At(i, "logout", "delete")
  /\ dbSessions' = dbSessions \ {SessionRow(restTasks[i])}
  /\ restTasks' = [restTasks EXCEPT ![i].pc = "status"]
  /\ UNCHANGED << tokenCache, recentLogins, contactSeq, dbContacts, dbStatus,
                  issued, dbGroupMembers >>
  /\ RestFrame

\* after UPDATE users SET status = 'offline'
LogoutStatusDone(i) ==
  /\ At(i, "logout", "status")
  /\ dbStatus' = [dbStatus EXCEPT ![restTasks[i].userId] = "offline"]
  /\ restTasks' = [restTasks EXCEPT ![i].pc = "done"]
  /\ UNCHANGED << tokenCache, recentLogins, contactSeq, dbContacts,
                  dbSessions, issued, dbGroupMembers >>
  /\ RestFrame

\* ------------------------------------------------------------ profile
\* PUT /users/profile with a status field is request "profile", whose text
\* is the status; a value the route does not know gets 400 before any query.
\* after UPDATE users SET status = $1, updated_at = ... WHERE id = $2
ProfileUpdateDone(i) ==
  /\ At(i, "profile", "update")
  /\ dbStatus' = [dbStatus EXCEPT ![restTasks[i].userId] = restTasks[i].text]
  /\ restTasks' = [restTasks EXCEPT ![i].pc = "done"]
  /\ UNCHANGED << tokenCache, recentLogins, contactSeq, dbContacts,
                  dbSessions, issued, dbGroupMembers >>
  /\ RestFrame

\* ------------------------------------------------------------ expiry
\* The exp claim of a token and expires_at of its session row are read by
\* four comparisons, on two clocks.  On the clock of the server process:
\* jwt.verify fails once the whole second of exp is reached, and
\* authMiddleware takes the row for expired once new Date() is after
\* expires_at, which is never before exp.  On the clock of the store, which
\* keeps expires_at as a TIMESTAMP without time zone: the session query of
\* the socket middleware drops the row once NOW() has reached expires_at
\* (expires_at > NOW() fails), the cleanup of POST /login deletes it once
\* NOW() is after it (expires_at < NOW()).
\* Only the tokens signed at registration, before the server started, run
\* out: a token signed by a login of the run lasts 7 days, longer than the
\* clock of any run here.
\* exp is a whole second: the token runs out when Date.now() enters that
\* second, so what is signed afterwards has a later iat than what was signed
\* before.  The clock moves to the start of its next second, the least it
\* can have moved.
TokenExpires(tok) ==
  /\ tok \in issued \ jwtExpired
  /\ tok.iat = 1
  /\ jwtExpired' = jwtExpired \cup {tok}
  /\ now' = 1000 * ((now \div 1000) + 1)
  /\ attemptLog' = Prune(attemptLog, now')
  /\ UNCHANGED << connectionAttempts, registryVars, sock, discTasks, bcast,
                  episodes, rooms, inbox, storeVars, fixtureVars, msgVars,
                  dbPassed, nodePassed, tokenCache, restTasks, recentLogins,
                  contactSeq >>

\* the clock of the server process passes expires_at of the token's row,
\* which is not before the start of the second of exp: Date.now() is a
\* millisecond on, the least it can have moved
SessionPassesNode(tok) ==
  /\ tok \in jwtExpired \ nodePassed
  /\ nodePassed' = nodePassed \cup {tok}
  /\ now' = now + 1
  /\ attemptLog' = Prune(attemptLog, now')
  /\ UNCHANGED << connectionAttempts, registryVars, sock, discTasks, bcast,
                  episodes, rooms, inbox, storeVars, fixtureVars, msgVars,
                  dbPassed, jwtExpired, tokenCache, restTasks, recentLogins,
                  contactSeq >>

\* NOW() of the store reaches expires_at of the token's row
SessionExpires(tok) ==
  /\ tok \in issued \ dbExpired
  /\ tok.iat = 1
  /\ dbExpired' = dbExpired \cup {tok}
  /\ UNCHANGED << lifeVars, rooms, inbox, dbStatus, dbSessions, issued,
                  dbGroupMembers, fixtureVars, msgVars, restVars >>

\* NOW() of the store passes expires_at of the token's row
SessionPasses(tok) ==
  /\ tok \in dbExpired \ dbPassed
  /\ dbPassed' = dbPassed \cup {tok}
  /\ UNCHANGED << lifeVars, rooms, inbox, storeVars, fixtureVars, msgVars,
                  jwtExpired, nodePassed, tokenCache, restTasks,
                  recentLogins, contactSeq >>

\* ------------------------------------------------------------ groups
\* Conversation 2 is the conversation of a group that a third user, who is
\* outside Users, owns and administers; users 1 and 2 have role 'member'
\* where they are members.  Conversation 1 has no group.
GroupOwner == [c \in Convs |-> IF c = 2 THEN 3 ELSE None]
GroupAdmins == [c \in Convs |-> IF c = 2 THEN {3} ELSE {}]

\* POST /groups/:groupId/leave with token tok, for the group behind
\* conversation c, arrives at authMiddleware
LeaveGroup(c, tok) == AuthMiddleware("leave", tok, c, None, "")

\* after SELECT owner_id: the owner cannot leave (400); for anyone else the
\* DELETE of the membership is sent
LeaveOwnerDone(i) ==
  /\ At(i, "leave", "owner")
  /\ restTasks' =
       [restTasks EXCEPT
          ![i].pc = IF GroupOwner[restTasks[i].conv] = restTasks[i].userId
                    THEN "refused" ELSE "remove"]
  /\ UNCHANGED << tokenCache, recentLogins, contactSeq, dbContacts, dbStatus,
                  dbSessions, issued, dbGroupMembers >>
  /\ RestFrame

\* after DELETE FROM group_members: 404 when it deleted no row
LeaveRemoveDone(i) ==
  /\ At(i, "leave", "remove")
  /\ dbGroupMembers' = [dbGroupMembers EXCEPT
                          ![restTasks[i].conv] = @ \ {restTasks[i].userId}]
  /\ restTasks' =
       [restTasks EXCEPT
          ![i].pc = IF restTasks[i].userId
                         \in dbGroupMembers[restTasks[i].conv]
                    THEN "done" ELSE "refused"]
  /\ UNCHANGED << tokenCache, recentLogins, contactSeq, dbContacts, dbStatus,
                  dbSessions, issued >>
  /\ RestFrame

\* DELETE /groups/:groupId/members/:memberId is request "remove_member",
\* for the group behind conversation conv and the member arg.
\* after the SELECT of the caller's role: 403 for a caller who is no member,
\* or who is no admin and names another member; otherwise the SELECT of the
\* member's row is sent
RemoveCallerDone(i) ==
  /\ At(i, "remove_member", "caller")
  /\ LET k == restTasks[i]
     IN restTasks' =
          [restTasks EXCEPT
             ![i].pc = IF k.userId \notin dbGroupMembers[k.conv]
                       THEN "refused"
                       ELSE IF k.userId \notin GroupAdmins[k.conv]
                               /\ k.arg # k.userId
                       THEN "refused"
                       ELSE "target"]
  /\ UNCHANGED << tokenCache, recentLogins, contactSeq, dbContacts, dbStatus,
                  dbSessions, issued, dbGroupMembers >>
  /\ RestFrame

\* after the SELECT of the member's row: 404 without one; otherwise the
\* SELECT of the owner is sent
RemoveTargetDone(i) ==
  /\ At(i, "remove_member", "target")
  /\ restTasks' =
       [restTasks EXCEPT
          ![i].pc = IF restTasks[i].arg \in dbGroupMembers[restTasks[i].conv]
                    THEN "owner" ELSE "refused"]
  /\ UNCHANGED << tokenCache, recentLogins, contactSeq, dbContacts, dbStatus,
                  dbSessions, issued, dbGroupMembers >>
  /\ RestFrame

\* after SELECT owner_id: the owner cannot be removed (400); otherwise the
\* DELETE of the membership is sent
RemoveOwnerDone(i) ==
  /\ At(i, "remove_member", "owner")
  /\ restTasks' =
       [restTasks EXCEPT
          ![i].pc = IF restTasks[i].arg = GroupOwner[restTasks[i].conv]
                    THEN "refused" ELSE "remove"]
  /\ UNCHANGED << tokenCache, recentLogins, contactSeq, dbContacts, dbStatus,
                  dbSessions, issued, dbGroupMembers >>
  /\ RestFrame

\* after DELETE FROM group_members of the member's row
RemoveDeleteDone(i) ==
  /\ At(i, "remove_member", "remove")
  /\ dbGroupMembers' = [dbGroupMembers EXCEPT
                          ![restTasks[i].conv] = @ \ {restTasks[i].arg}]
  /\ restTasks' = [restTasks EXCEPT ![i].pc = "done"]
  /\ UNCHANGED << tokenCache, recentLogins, contactSeq, dbContacts, dbStatus,
                  dbSessions, issued >>
  /\ RestFrame

\* ------------------------------------------------------------ contacts
\* the contacts rows that join u and v, either way round
Between(u, v) ==
  {r \in dbContacts : \/ r.user = u /\ r.contact = v
                      \/ r.user = v /\ r.contact = u}
SetStatus(rows, id, st) ==
  {IF r.id = id THEN [r EXCEPT !.status = st] ELSE r : r \in rows}

\* POST /contacts/request with contactId arg in the body (None: no
\* contactId) is request "contact_request": no contactId or the caller's own
\* id gets 400.  POST /contacts/:contactId/block is "contact_block": the
\* path parameter is a string, which never equals the caller's numeric id,
\* so the caller can name itself.
\* after the SELECT of the named user: 404 without a row; otherwise the
\* SELECT of the rows between the two users is sent
ContactUserDone(i) ==
  /\ At(i, "contact_request", "user") \/ At(i, "contact_block", "user")
  /\ restTasks' = [restTasks EXCEPT
                     ![i].pc = IF restTasks[i].arg \in Users
                               THEN "existing" ELSE "refused"]
  /\ UNCHANGED << tokenCache, recentLogins, contactSeq, dbContacts, dbStatus,
                  dbSessions, issued, dbGroupMembers >>
  /\ RestFrame

\* request, after the SELECT of the rows between the two: any row, whatever
\* its status, gets 400; otherwise the INSERT of the pending row is sent
ContactRequestExistingDone(i) ==
  /\ At(i, "contact_request", "existing")
  /\ restTasks' =
       [restTasks EXCEPT
          ![i].pc = IF Between(restTasks[i].userId, restTasks[i].arg) # {}
                    THEN "refused" ELSE "insert"]
  /\ UNCHANGED << tokenCache, recentLogins, contactSeq, dbContacts, dbStatus,
                  dbSessions, issued, dbGroupMembers >>
  /\ RestFrame

\* request and block, after INSERT INTO contacts of a pending or a blocked
\* row: the sequence of ids moves on; a row of the same (user_id,
\* contact_id), which UNIQUE forbids, makes the INSERT fail (500)
ContactInsertDone(i) ==
  /\ At(i, "contact_request", "insert") \/ At(i, "contact_block", "insert")
  /\ LET k == restTasks[i]
     IN /\ contactSeq' = contactSeq + 1
        /\ IF \E r \in dbContacts : r.user = k.userId /\ r.contact = k.arg
           THEN /\ dbContacts' = dbContacts
                /\ restTasks' = [restTasks EXCEPT ![i].pc = "failed"]
           ELSE /\ dbContacts' = dbContacts \cup
                     {ContactRow(contactSeq + 1, k.userId, k.arg,
                                 IF k.op = "contact_request"
                                 THEN "pending" ELSE "blocked")}
                /\ restTasks' = [restTasks EXCEPT ![i].pc = "done"]
  /\ UNCHANGED << tokenCache, recentLogins, dbStatus, dbSessions, issued,
                  dbGroupMembers >>
  /\ RestFrame

\* block, after the SELECT of the rows between the two: the UPDATE of the
\* first row returned is sent, or the INSERT of a blocked row
ContactBlockExistingDone(i) ==
  /\ At(i, "contact_block", "existing")
  /\ LET rows == Between(restTasks[i].userId, restTasks[i].arg)
     IN IF rows = {}
        THEN restTasks' = [restTasks EXCEPT ![i].pc = "insert"]
        ELSE \E r \in rows :
                restTasks' = [restTasks EXCEPT ![i].row = r.id,
                                               ![i].pc = "update"]
  /\ UNCHANGED << tokenCache, recentLogins, contactSeq, dbContacts, dbStatus,
                  dbSessions, issued, dbGroupMembers >>
  /\ RestFrame

\* block, after UPDATE contacts SET status = 'blocked' WHERE id = $2
ContactBlockUpdateDone(i) ==
  /\ At(i, "contact_block", "update")
  /\ dbContacts' = SetStatus(dbContacts, restTasks[i].row, "blocked")
  /\ restTasks' = [restTasks EXCEPT ![i].pc = "done"]
  /\ UNCHANGED << tokenCache, recentLogins, contactSeq, dbStatus, dbSessions,
                  issued, dbGroupMembers >>
  /\ RestFrame

\* POST /contacts/request/:requestId/accept, .../decline and
\* DELETE /contacts/request/:requestId are requests "contact_accept",
\* "contact_decline" and "contact_cancel" with the request id as arg.
\* after the SELECT of the pending row with the request id that names the
\* caller as the receiver of the request (accept, decline) or as its sender
\* (cancel): 404 without such a row; otherwise the UPDATE (accept) or the
\* DELETE (decline, cancel) of the row is sent
ContactSelectDone(i) ==
  /\ \/ At(i, "contact_accept", "select")
     \/ At(i, "contact_decline", "select")
     \/ At(i, "contact_cancel", "select")
  /\ LET k == restTasks[i]
     IN restTasks' =
          [restTasks EXCEPT
             ![i].pc =
                IF ~\E r \in dbContacts :
                       /\ r.id = k.arg /\ r.status = "pending"
                       /\ IF k.op = "contact_cancel"
                          THEN r.user = k.userId ELSE r.contact = k.userId
                THEN "refused"
                ELSE IF k.op = "contact_accept" THEN "update" ELSE "delete"]
  /\ UNCHANGED << tokenCache, recentLogins, contactSeq, dbContacts, dbStatus,
                  dbSessions, issued, dbGroupMembers >>
  /\ RestFrame

\* accept, after UPDATE contacts SET status = 'accepted' WHERE id = $2
ContactAcceptDone(i) ==
  /\ At(i, "contact_accept", "update")
  /\ dbContacts' = SetStatus(dbContacts, restTasks[i].arg, "accepted")
  /\ restTasks' = [restTasks EXCEPT ![i].pc = "done"]
  /\ UNCHANGED << tokenCache, recentLogins, contactSeq, dbStatus, dbSessions,
                  issued, dbGroupMembers >>
  /\ RestFrame

\* decline and cancel, after DELETE FROM contacts WHERE id = $1
ContactDeleteDone(i) ==
  /\ At(i, "contact_decline", "delete") \/ At(i, "contact_cancel", "delete")
  /\ dbContacts' = {r \in dbContacts : r.id # restTasks[i].arg}
  /\ restTasks' = [restTasks EXCEPT ![i].pc = "done"]
  /\ UNCHANGED << tokenCache, recentLogins, contactSeq, dbStatus, dbSessions,
                  issued, dbGroupMembers >>
  /\ RestFrame

\* DELETE /contacts/:contactId ("contact_remove", the contact as arg),
\* after the DELETE of every row between the two users, whatever its
\* status: 404 when it deleted none
ContactRemoveDone(i) ==
  /\ At(i, "contact_remove", "delete")
  /\ LET rows == Between(restTasks[i].userId, restTasks[i].arg)
     IN /\ dbContacts' = dbContacts \ rows
        /\ restTasks' = [restTasks EXCEPT
                           ![i].pc = IF rows = {} THEN "refused" ELSE "done"]
  /\ UNCHANGED << tokenCache, recentLogins, contactSeq, dbStatus, dbSessions,
                  issued, dbGroupMembers >>
  /\ RestFrame

\* POST /contacts/:contactId/unblock ("contact_unblock", the contact as
\* arg), after the DELETE of the caller's blocked row for the contact: 404
\* when it deleted none
ContactUnblockDone(i) ==
  /\ At(i, "contact_unblock", "delete")
  /\ LET k == restTasks[i]
         rows == {r \in dbContacts : /\ r.user = k.userId
                                     /\ r.contact = k.arg
                                     /\ r.status = "blocked"}
     IN /\ dbContacts' = dbContacts \ rows
        /\ restTasks' = [restTasks EXCEPT
                           ![i].pc = IF rows = {} THEN "refused" ELSE "done"]
  /\ UNCHANGED << tokenCache, recentLogins, contactSeq, dbStatus, dbSessions,
                  issued, dbGroupMembers >>
  /\ RestFrame

\* ------------------------------------------------------------ start
\* The server has just started: empty maps; the store holds the registered
\* users (each with the session of its registration, status 'online' as
\* POST /register leaves it), one accepted contact row, the direct
\* conversation 1 of users 1 and 2 and the group conversation 2.
StoreInit(contacts) ==
  /\ dbStatus = [u \in Users |-> "online"]
  /\ dbSessions = {[userId |-> u, token |-> Jwt(u, 1)] : u \in Users}
  /\ dbExpired = {}
  /\ dbPassed = {}
  /\ issued = {Jwt(u, 1) : u \in Users}
  /\ dbContacts = contacts
  /\ contactSeq = 1
  /\ dbParticipants = [c \in Convs |-> IF c = 1 THEN {1, 2} ELSE {}]
  /\ dbGroupMembers = [c \in Convs |-> IF c = 2 THEN {2} ELSE {}]
  /\ dbMessages = << >>
  /\ dbReads = << >>
  /\ dbUpdatedAt = [c \in Convs |-> 0]

InitWith(log) ==
  /\ now = StartTime
  /\ connectionAttempts = [u \in Users |-> NoRecord]
  /\ connectedUsers = [u \in Users |-> None]
  /\ userSockets = [s \in Sockets |-> None]
  /\ sock = [s \in Sockets |-> IdleSock]
  /\ rooms = [s \in Sockets |-> {}]
  /\ inbox = [s \in Sockets |-> << >>]
  /\ discTasks = {}
  /\ bcast = {}
  /\ StoreInit({ContactRow(1, 1, 2, "accepted")})
  /\ sendTasks = [s \in Sockets |-> << >>]
  /\ readTasks = [s \in Sockets |-> << >>]
  /\ logging = log
  /\ attemptLog = << >>
  /\ episodes = [u \in Users |-> 0]
  /\ roomEmits = << >>
  /\ jwtExpired = {}
  /\ nodePassed = {}
  /\ recentLogins = [k \in (Users \cup {NoUser}) \X ClientIPs |-> None]
  /\ tokenCache = {}
  /\ restTasks = << >>

Init == InitWith(FALSE)

\* ------------------------------------------------------------ lifecycle
\* Connections of both users come and go; nothing else happens.
LifeSockets == {101, 102, 103}

Next ==
  \/ \E s \in LifeSockets,
        tok \in {NoToken, ForgedToken, Jwt(1, 1), Jwt(2, 1)} :
        Fresh(LifeSockets, s) /\ Attempt(s, tok)
  \/ \E s \in LifeSockets : AuthResolve(s)
  \/ \E s \in LifeSockets : SetupStatusDone(s)
  \/ \E s \in LifeSockets : SetupJoinDone(s)
  \/ \E s \in LifeSockets : ClientClose(s)
  \/ \E s \in LifeSockets : DiscUpdateDone(s)
  \/ \E b \in bcast : BroadcastDeliver(b)

Spec == Init /\ [][Next]_vars

\* ------------------------------------------------------------ sessions
\* User 1 logs in, from two addresses, and out, and its registration token
\* runs out, while its connections come and go.  (The offline UPDATE of a
\* disconnect handler and the contacts query of an announcement stay
\* pending: what follows them touches neither sessions nor admission.  The
\* run ends before the server's clock passes expires_at of a session row.)
SessSockets == {101, 102}
SessTokens ==
  {Jwt(1, 1)} \cup {Jwt(1, (StartTime \div 1000) + k) : k \in 0..1}

NextSession ==
  \/ \E s \in SessSockets, tok \in SessTokens :
        Fresh(SessSockets, s) /\ Attempt(s, tok)
  \/ \E s \in SessSockets : AuthResolve(s)
  \/ \E s \in SessSockets : SetupStatusDone(s)
  \/ \E s \in SessSockets : SetupJoinDone(s)
  \/ \E s \in SessSockets : ClientClose(s)
  \/ \E ip \in ClientIPs : Login(1, ip, "right")
  \/ \E pw \in {"wrong", ""} : Login(1, 1, pw)
  \/ Login(NoUser, 1, "right")
  \/ \E i \in 1..MaxRest : LoginSelectDone(i)
  \/ \E i \in 1..MaxRest : LoginCompareDone(i)
  \/ \E i \in 1..MaxRest : LoginCleanupDone(i)
  \/ \E i \in 1..MaxRest : LoginInsertDone(i)
  \/ \E i \in 1..MaxRest : LoginStatusDone(i)
  \/ \E tok \in SessTokens : Logout(1, tok)
  \/ \E i \in 1..MaxRest : AuthMiddlewareDone(i)
  \/ \E i \in 1..MaxRest : LogoutDeleteDone(i)
  \/ \E i \in 1..MaxRest : LogoutStatusDone(i)
  \/ \E tok \in SessTokens : TokenExpires(tok)
  \/ \E tok \in SessTokens : SessionExpires(tok)
  \/ \E tok \in SessTokens : SessionPasses(tok)

SpecSession == Init /\ [][NextSession]_vars

\* ------------------------------------------------------------ rate limit
\* User 1 makes connection attempts while time passes; the attempt history
\* is kept.  The steps of a connection after its registration touch neither
\* the clock nor the attempt records nor what an attempt reads, and are left
\* out: the store takes longer than the run to answer them.

NextRate ==
  \/ \E s \in Sockets, tok \in {Jwt(1, 1)} :
        Recycled(Sockets, s) /\ Attempt(s, tok)
  \/ \E s \in Sockets : AuthResolve(s)
  \/ \E s \in Sockets : ClientClose(s)
  \/ Tick

SpecRate == InitWith(TRUE) /\ [][NextRate]_vars

\* ------------------------------------------------------------ credentials
\* User 1 connects with no token, a forged one and the token of its
\* registration, while it logs out, the token runs out and the store may
\* fail the session query.  No client closes a connection, so a connection
\* that is closed was closed by the server.
\* The steps of a connection after its registration touch neither the
\* registry nor the attempt records, and are left out.
CredSockets == {101, 102, 103}

NextCred ==
  \/ \E s \in CredSockets,
        tok \in {NoToken, ForgedToken, Jwt(1, 1)} :
        Fresh(CredSockets, s) /\ Attempt(s, tok)
  \/ \E s \in CredSockets : AuthResolve(s)
  \/ \E s \in CredSockets : AuthStoreFail(s)
  \/ Logout(1, Jwt(1, 1))
  \/ \E i \in 1..MaxRest : AuthMiddlewareDone(i)
  \/ \E i \in 1..MaxRest : AuthExpiredDone(i)
  \/ \E i \in 1..MaxRest : LogoutDeleteDone(i)
  \/ \E i \in 1..MaxRest : LogoutStatusDone(i)
  \/ TokenExpires(Jwt(1, 1))
  \/ SessionPassesNode(Jwt(1, 1))
  \/ SessionExpires(Jwt(1, 1))

SpecCred == InitWith(TRUE) /\ [][NextCred]_vars

\* ------------------------------------------------------------ cooldown
\* User 1 connects over and over with a valid token, giving up connections
\* before or after they are admitted, while time passes.
BlockSockets == {101, 102}

NextBlock ==
  \/ \E s \in BlockSockets : Recycled(BlockSockets, s) /\ Attempt(s, Jwt(1, 1))
  \/ \E s \in BlockSockets : AuthResolve(s)
  \/ \E s \in BlockSockets : ClientClose(s)
  \/ Tick

SpecBlock == InitWith(TRUE) /\ [][NextBlock]_vars

\* ------------------------------------------------------------ messaging
\* One connection of each user; they join and leave rooms and send messages,
\* user 2 leaves the group, and the connection of user 1 closes while
\* handlers are under way (the offline UPDATE of its disconnect handler stays
\* pending: what follows it touches neither rooms nor messages).
\* The server has admitted connection 101 of user 1 and then connection 102
\* of user 2, and both setups have finished: 101 got the online announcement
\* of user 2.
MsgSockets == {101, 102}
SockOf == [u \in Users |-> 100 + u]
UserOf(s) == IF s \in MsgSockets THEN s - 100 ELSE None
MsgState(contacts, box, calls) ==
  /\ StoreInit(contacts)
  /\ now = StartTime
  /\ connectionAttempts =
       [u \in Users |-> [present |-> TRUE, count |-> 0,
                         lastAttempt |-> StartTime, blocked |-> FALSE]]
  /\ connectedUsers = SockOf
  /\ userSockets = [s \in Sockets |-> UserOf(s)]
  /\ sock = [s \in Sockets |->
              IF s \in MsgSockets
              THEN [pc |-> "ready", conn |-> "open", userId |-> UserOf(s),
                    token |-> Jwt(UserOf(s), 1)]
              ELSE IdleSock]
  /\ rooms = [s \in Sockets |->
               IF s \in MsgSockets THEN ConversationsOf(UserOf(s)) ELSE {}]
  /\ inbox = [s \in Sockets |-> IF s = 101 THEN box ELSE << >>]
  /\ discTasks = {}
  /\ bcast = calls
  /\ sendTasks = [s \in Sockets |-> << >>]
  /\ readTasks = [s \in Sockets |-> << >>]
  /\ logging = FALSE
  /\ attemptLog = << >>
  /\ episodes = [u \in Users |-> 0]
  /\ roomEmits = << >>
  /\ jwtExpired = {}
  /\ nodePassed = {}
  /\ recentLogins = [k \in (Users \cup {NoUser}) \X ClientIPs |-> None]
\* no REST request is under way
InitMsg ==
  /\ MsgState({ContactRow(1, 1, 2, "accepted")},
              << StatusChange(2, "online") >>, {})
  /\ tokenCache = {}
  /\ restTasks = << >>
\* User 2 has called POST /groups/:groupId/leave for the group of
\* conversation 2 with the token of its registration: authMiddleware has
\* passed and cached the token, the owner check has passed, and the DELETE
\* of the membership is under way.  (What the request did so far touched
\* nothing a socket handler reads.)
InitSend ==
  /\ MsgState({ContactRow(1, 1, 2, "accepted")},
              << StatusChange(2, "online") >>, {})
  /\ tokenCache = {Jwt(2, 1)}
  /\ restTasks = << RestTask("leave", 2, Jwt(2, 1), 2, None, "", "remove") >>
\* join_conversation / leave_conversation events: [socket, conversationId];
\* user 1 is no member of conversation 2
RoomMoves == {<< 101, 2 >>, << 102, 1 >>}
\* send_message payloads: [conversationId, content], a field missing or not
SendData == {<< None, "hi" >>, << 1, "" >>, << 1, "hi" >>, << 2, "hi" >>}
ReadData == {<< None, << 1 >> >>, << 1, NotAList >>, << 1, << >> >>,
             << 1, << 1 >> >>, << 1, << 1, 2 >> >>}

NextSend ==
  \/ ClientClose(101)
  \/ \E m \in RoomMoves : JoinConversation(m[1], m[2])
  \/ \E m \in RoomMoves : LeaveConversation(m[1], m[2])
  \/ \E s \in MsgSockets, d \in SendData : SendMessage(s, d[1], d[2])
  \/ \E s \in MsgSockets, i \in 1..MaxSends : SendAccessDone(s, i)
  \/ \E s \in MsgSockets, i \in 1..MaxSends : SendInsertDone(s, i)
  \/ \E s \in MsgSockets, i \in 1..MaxSends : SendFanout(s, i)
  \/ \E s \in MsgSockets, i \in 1..MaxSends : SendTouchDone(s, i)
  \/ \E i \in 1..MaxRest : LeaveRemoveDone(i)

SpecSend == InitSend /\ [][NextSend]_vars

\* ------------------------------------------------------------ store errors
\* Both users send to conversation 1 while the store may fail any query and
\* the connection of user 1 may close.
NextFail ==
  \/ ClientClose(101)
  \/ \E s \in MsgSockets : SendMessage(s, 1, "hi")
  \/ \E s \in MsgSockets, i \in 1..MaxSends : SendAccessDone(s, i)
  \/ \E s \in MsgSockets, i \in 1..MaxSends : SendInsertDone(s, i)
  \/ \E s \in MsgSockets, i \in 1..MaxSends : SendFanout(s, i)
  \/ \E s \in MsgSockets, i \in 1..MaxSends : SendTouchDone(s, i)
  \/ \E s \in MsgSockets, i \in 1..MaxSends : SendStoreFail(s, i)

SpecFail == InitMsg /\ [][NextFail]_vars

\* ------------------------------------------------------------ receipts
\* no handleSendMessage call of socket s is between two of its awaits
SendsSettled(s) ==
  \A i \in 1..Len(sendTasks[s]) :
     sendTasks[s][i].pc \notin {"access", "insert", "sender", "touch"}

\* User 1 sends messages to conversation 1, one after the other, and user 2
\* marks message ids read, some of which have no message yet, while the
\* store may fail an insert.
NextRead ==
  \/ SendsSettled(101) /\ SendMessage(101, 1, "hi")
  \/ \E i \in 1..MaxSends : SendAccessDone(101, i)
  \/ \E i \in 1..MaxSends : SendInsertDone(101, i)
  \/ \E i \in 1..MaxSends : SendFanout(101, i)
  \/ \E i \in 1..MaxSends : SendTouchDone(101, i)
  \/ \E d \in ReadData : MarkMessagesRead(102, d[1], d[2])
  \/ \E i \in 1..MaxReads : ReadInsertDone(102, i)
  \/ \E i \in 1..MaxReads : ReadStoreFail(102, i)

SpecRead == InitMsg /\ [][NextRead]_vars

\* ------------------------------------------------------------ setup
\* User 2 connects while the store may fail the status
\* update or the membership query of the connection setup; the client sends
\* messages as soon as it is connected, joins room 1 and closes.
SetupSockets == {101}

NextSetup ==
  \/ \E s \in SetupSockets : Fresh(SetupSockets, s) /\ Attempt(s, Jwt(2, 1))
  \/ \E s \in SetupSockets : AuthResolve(s)
  \/ \E s \in SetupSockets : SetupStatusDone(s)
  \/ \E s \in SetupSockets : SetupStatusFail(s)
  \/ \E s \in SetupSockets : SetupJoinDone(s)
  \/ \E s \in SetupSockets : SetupJoinFail(s)
  \/ \E s \in SetupSockets : ClientClose(s)
  \/ \E s \in SetupSockets : DiscUpdateDone(s)
  \/ \E s \in SetupSockets : DiscUpdateFail(s)
  \/ \E b \in bcast : BroadcastDeliver(b)
  \/ \E b \in bcast : BroadcastFail(b)
  \/ \E s \in SetupSockets : JoinConversation(s, 1)
  \/ \E s \in SetupSockets, c \in Convs : SendUnheard(s, c, "hi")
  \/ \E s \in SetupSockets, c \in Convs : SendMessage(s, c, "hi")
  \/ \E s \in SetupSockets, i \in 1..MaxSends : SendAccessDone(s, i)
  \/ \E s \in SetupSockets, i \in 1..MaxSends : SendInsertDone(s, i)
  \/ \E s \in SetupSockets, i \in 1..MaxSends : SendFanout(s, i)
  \/ \E s \in SetupSockets, i \in 1..MaxSends : SendTouchDone(s, i)

SpecSetup == Init /\ [][NextSetup]_vars

\* ------------------------------------------------------------ payloads
\* Both users are connected; clients send typing_start, typing_stop,
\* send_message and mark_messages_read without a payload, user 2 sends
\* messages to conversation 2, and user 1 closes its connection.
TypingData == {NoPayload, << None >>, << 1 >>}

NextTyping ==
  \/ \E d \in TypingData : Typing(101, d, "user_typing")
  \/ \E d \in TypingData : Typing(102, d, "user_stop_typing")
  \/ SendNoPayload(101)
  \/ MarkReadNoPayload(101)
  \/ SendMessage(102, 2, "hi")
  \/ \E i \in 1..MaxSends : SendAccessDone(102, i)
  \/ \E i \in 1..MaxSends : SendInsertDone(102, i)
  \/ \E i \in 1..MaxSends : SendFanout(102, i)
  \/ \E i \in 1..MaxSends : SendTouchDone(102, i)
  \/ Running /\ ClientClose(101)
  \/ Running /\ AuthMiddleware("profile", Jwt(2, 1), None, None, "away")
  \/ \E i \in 1..MaxRest : AuthMiddlewareDone(i)
  \/ \E i \in 1..MaxRest : ProfileUpdateDone(i)

SpecTyping == InitMsg /\ [][NextTyping]_vars

\* ------------------------------------------------------------ membership
\* Both users are connected; user 2 sends messages to conversation 2 while
\* it leaves the group of the conversation over POST /groups/:groupId/leave
\* or takes itself out of it over DELETE /groups/:groupId/members/:memberId.
NextGroups ==
  \/ SendMessage(102, 2, "hi")
  \/ \E i \in 1..MaxSends : SendAccessDone(102, i)
  \/ \E i \in 1..MaxSends : SendInsertDone(102, i)
  \/ \E i \in 1..MaxSends : SendFanout(102, i)
  \/ \E i \in 1..MaxSends : SendTouchDone(102, i)
  \/ LeaveGroup(2, Jwt(2, 1))
  \/ AuthMiddleware("remove_member", Jwt(2, 1), 2, 2, "")
  \/ \E i \in 1..MaxRest : AuthMiddlewareDone(i)
  \/ \E i \in 1..MaxRest : LeaveOwnerDone(i)
  \/ \E i \in 1..MaxRest : LeaveRemoveDone(i)
  \/ \E i \in 1..MaxRest : RemoveCallerDone(i)
  \/ \E i \in 1..MaxRest : RemoveTargetDone(i)
  \/ \E i \in 1..MaxRest : RemoveOwnerDone(i)
  \/ \E i \in 1..MaxRest : RemoveDeleteDone(i)

SpecGroups == InitMsg /\ [][NextGroups]_vars

\* ------------------------------------------------------------ contacts
\* User 1 has sent user 2 a friend request, which is pending; both users
\* have connected, and the contacts queries of their online announcements
\* are under way.  User 2 accepts, declines, blocks, unblocks and removes,
\* user 1 cancels and requests again, each sending its next request when
\* the last one was answered, while the connections close.
\* the client of user u has the answer to every request it sent
Answered(u) ==
  \A i \in 1..Len(restTasks) :
     restTasks[i].userId = u
     => restTasks[i].pc \in {"done", "refused", "failed"}

InitContacts ==
  /\ MsgState({ContactRow(1, 1, 2, "pending")}, << >>,
              {[userId |-> u, status |-> "online", src |-> SockOf[u],
                pc |-> "query"] : u \in Users})
  /\ tokenCache = {}
  /\ restTasks = << >>

NextContacts ==
  \/ \E s \in MsgSockets : ClientClose(s)
  \/ \E s \in MsgSockets : DiscUpdateDone(s)
  \/ \E b \in bcast : BroadcastDeliver(b)
  \/ \E b \in bcast : BroadcastFail(b)
  \/ \E op \in {"contact_request", "contact_cancel"} :
        Answered(1)
        /\ AuthMiddleware(op, Jwt(1, 1), None,
                          IF op = "contact_request" THEN 2 ELSE 1, "")
  \/ \E op \in {"contact_accept", "contact_decline", "contact_block",
                 "contact_unblock", "contact_remove"} :
        Answered(2) /\ AuthMiddleware(op, Jwt(2, 1), None, 1, "")
  \/ \E i \in 1..MaxRest : AuthMiddlewareDone(i)
  \/ \E i \in 1..MaxRest : ContactUserDone(i)
  \/ \E i \in 1..MaxRest : ContactRequestExistingDone(i)
  \/ \E i \in 1..MaxRest : ContactInsertDone(i)
  \/ \E i \in 1..MaxRest : ContactBlockExistingDone(i)
  \/ \E i \in 1..MaxRest : ContactBlockUpdateDone(i)
  \/ \E i \in 1..MaxRest : ContactSelectDone(i)
  \/ \E i \in 1..MaxRest : ContactAcceptDone(i)
  \/ \E i \in 1..MaxRest : ContactDeleteDone(i)
  \/ \E i \in 1..MaxRest : ContactRemoveDone(i)
  \/ \E i \in 1..MaxRest : ContactUnblockDone(i)

SpecContacts == InitContacts /\ [][NextContacts]_vars

\* ------------------------------------------------------------ profile
\* Connections of user 1 come and go while it sets its status over
\* PUT /users/profile, to values the route accepts and to one it refuses.
NextProfile ==
  \/ \E s \in SessSockets :
        Fresh(SessSockets, s) /\ Attempt(s, Jwt(1, 1))
  \/ \E s \in SessSockets : AuthResolve(s)
  \/ \E s \in SessSockets : SetupStatusDone(s)
  \/ \E s \in SessSockets : SetupJoinDone(s)
  \/ \E s \in SessSockets : ClientClose(s)
  \/ \E s \in SessSockets : DiscUpdateDone(s)
  \/ \E b \in bcast : BroadcastDeliver(b)
  \/ \E st \in {"away", "offline", "invisible"} :
        AuthMiddleware("profile", Jwt(1, 1), None, None, st)
  \/ \E i \in 1..MaxRest : AuthMiddlewareDone(i)
  \/ \E i \in 1..MaxRest : ProfileUpdateDone(i)

SpecProfile == Init /\ [][NextProfile]_vars

\* ------------------------------------------------------------ cleanup
\* User 1 connects over and over with a valid token while time passes, in
\* short steps at first and then in whole timer periods; the cleanup timer
\* may fire at any point of the run.
NextClean ==
  \/ \E s \in BlockSockets : Recycled(BlockSockets, s) /\ Attempt(s, Jwt(1, 1))
  \/ \E s \in BlockSockets : AuthResolve(s)
  \/ \E s \in BlockSockets : ClientClose(s)
  \/ Tick
  \/ Pause
  \/ Cleanup

SpecClean == InitWith(TRUE) /\ [][NextClean]_vars

\* ------------------------------------------------------------ claims
OfflineEvents(s, u) ==
  Len(SelectSeq(inbox[s], LAMBDA e : e.type = "user_status_change"
                                      /\ e.userId = u
                                      /\ e.status = "offline"))

\* C1: no user has more than one live admitted connection, in any
\* interleaving of connection attempts, admissions and disconnects.
C1_SingleLiveConnection ==
  \A u \in Users : Cardinality(LiveOf(u)) <= 1

\* C6: when a connection of a user closes while the user has another live
\* connection, the closing connection's disconnect handling does not go on
\* to the offline UPDATE and the offline broadcast.
C6_StaysOnline ==
  [][\A s \in Sockets :
       (sock[s].conn = "open" /\ sock'[s].conn = "closed"
        /\ LiveOf(sock[s].userId) \ {s} # {})
       => s \notin discTasks']_vars

\* C7: while user u has gone from connected to no live connection at most
\* once, no connection has received more than one offline
\* user_status_change for u, however many connections of u were closed.
C7_OfflineOncePerEpisode ==
  \A s \in Sockets, u \in Users :
     episodes[u] <= 1 => OfflineEvents(s, u) <= 1

\* C5: a connection is admitted only if its token verifies and the store
\* holds an unexpired session row of that user for that token.
C5_AdmittedHasSession ==
  [][\A s \in Sockets :
       (sock[s].pc = "auth" /\ sock'[s].pc = "setup_status")
       => /\ [userId |-> sock[s].userId, token |-> sock[s].token]
               \in dbSessions
          /\ sock[s].token \notin dbExpired]_vars

\* C9: when connection s of user u disconnects while the registry maps u to
\* a different connection, that entry and its reverse entry stay in place.
C9_LateDisconnectKeepsEntry ==
  [][\A s \in Sockets :
       LET u == sock[s].userId
           cur == connectedUsers[u]
       IN (sock[s].conn = "open" /\ sock'[s].conn = "closed"
           /\ Admitted(s) /\ cur # None /\ cur # s)
          => (connectedUsers'[u] = cur /\ userSockets'[cur] = u)]_vars

\* C10: connectedUsers maps u to s exactly when userSockets maps s to u.
C10_RegistryConsistent ==
  \A u \in Users, s \in Sockets :
     (connectedUsers[u] = s) <=> (userSockets[s] = u)

\* sets of MAX_ATTEMPTS + 1 attempts of user u in the history that lie within
\* one ATTEMPT_WINDOW
AttemptsOf(u) ==
  {i \in 1..Len(attemptLog) :
     attemptLog[i].kind = "attempt" /\ attemptLog[i].userId = u}
First(I) == CHOOSE i \in I : \A j \in I : i <= j
Last(I) == CHOOSE i \in I : \A j \in I : j <= i
Bursts(u) ==
  {I \in SUBSET AttemptsOf(u) :
     /\ Cardinality(I) = MAX_ATTEMPTS + 1
     /\ attemptLog[Last(I)].t - attemptLog[First(I)].t < ATTEMPT_WINDOW}
\* C2: the last of any MAX_ATTEMPTS + 1 attempts of a user with a verifiable
\* token within one ATTEMPT_WINDOW is rejected as rate-limited, whatever
\* became of the earlier ones.
C2_LastOfBurstRejected ==
  \A u \in Users : \A I \in Bursts(u) :
     attemptLog[Last(I)].verdict # "pass"

\* how many events of a type with message id m socket s has received
Received(s, type, m) ==
  Len(SelectSeq(inbox[s], LAMBDA e : e.type = type /\ e.id = m))
NewMessageEmits ==
  {j \in 1..Len(roomEmits) : roomEmits[j].type = "new_message"}

\* C3: a fanned-out message has reached each connection subscribed to its
\* room at fan-out time exactly once, the sender's included, and no other
\* connection; each new_message carries the id and created_at of its row,
\* and no message is fanned out twice.
C3_FanoutToSubscribers ==
  /\ \A j \in NewMessageEmits : \A s \in Sockets :
        Received(s, "new_message", roomEmits[j].id)
          = IF s \in roomEmits[j].subs THEN 1 ELSE 0
  /\ \A j, k \in NewMessageEmits :
        roomEmits[j].id = roomEmits[k].id => j = k
  /\ \A s \in Sockets : \A j \in 1..Len(inbox[s]) :
        inbox[s][j].type = "new_message"
        => /\ inbox[s][j].id \in MessageIds
           /\ inbox[s][j].at = dbMessages[inbox[s][j].id].at
           /\ inbox[s][j].conv = dbMessages[inbox[s][j].id].conv
           /\ \E k \in NewMessageEmits : roomEmits[k].id = inbox[s][j].id

\* one message reached two subscribers, its sender among them, and another
\* was fanned out while an open connection was not subscribed
C3_FannedOut ==
  /\ \E j \in NewMessageEmits :
        roomEmits[j].src \in roomEmits[j].subs
        /\ Cardinality(roomEmits[j].subs) = 2
  /\ \E j \in NewMessageEmits : \E s \in MsgSockets :
        /\ sock[s].conn = "open" /\ s \notin roomEmits[j].subs
        /\ roomEmits[j].subs # {}
        /\ Received(s, "new_message", roomEmits[j].id) = 0

\* the user of socket s is, in the store, neither a participant nor a
\* group member of conversation c
Outsider(s, c) ==
  sock[s].userId \notin dbParticipants[c] \cup dbGroupMembers[c]

\* C4: when the access check of a send finds its sender neither participant
\* nor group member, the send ends there: the sender's connection gets one
\* error event and stays open, no other connection gets anything, no
\* message row is inserted and nothing is fanned out, then or later.
C4_OutsiderDenied ==
  [][\A s \in Sockets : \A i \in 1..Len(sendTasks[s]) :
       /\ (sendTasks[s][i].pc = "access" /\ sendTasks'[s][i].pc # "access"
           /\ Outsider(s, sendTasks[s][i].conv))
          => /\ sendTasks'[s][i].pc = "denied"
             /\ dbMessages' = dbMessages /\ roomEmits' = roomEmits
             /\ sock' = sock
             /\ inbox' = Deliver(inbox, {s},
                   ErrorEvent("Access denied to this conversation"))
       /\ sendTasks[s][i].pc = "denied" => sendTasks'[s][i].pc = "denied"
    ]_vars

\* user 2 sent a message to conversation 2 and left its group, over the
\* leave route or by taking itself out of the member list; the access
\* check of its next send to conversation 2 came after that and denied it,
\* on a connection that is still open
C4_DeniedAfterLeaving ==
  /\ \E i \in 1..Len(restTasks) :
        /\ restTasks[i].op \in {"leave", "remove_member"}
        /\ restTasks[i].userId = 2 /\ restTasks[i].pc = "done"
  /\ Len(sendTasks[102]) = 2
  /\ sendTasks[102][1].conv = 2 /\ sendTasks[102][1].pc = "done"
  /\ sendTasks[102][2].conv = 2 /\ sendTasks[102][2].pc = "denied"
  /\ sock[102].conn = "open"
  /\ Received(102, "error", None) = 1
  /\ Len(dbMessages) = 1

\* read markers of user u for message m, and messages_read emits of socket s
\* for conversation c
ReadsOf(m, u) ==
  Len(SelectSeq(dbReads, LAMBDA r : r.message = m /\ r.user = u))
ReadEmits(s, c) ==
  Cardinality({j \in 1..Len(roomEmits) :
                 /\ roomEmits[j].type = "messages_read"
                 /\ roomEmits[j].src = s /\ roomEmits[j].conv = c})
\* socket s has handled to the end two well-formed mark_messages_read calls
\* with the same conversation and the same message ids
MarkedTwice(s) ==
  /\ Len(readTasks[s]) = 2
  /\ readTasks[s][1].conv = readTasks[s][2].conv
  /\ readTasks[s][1].ids = readTasks[s][2].ids
  /\ \A i \in 1..2 : readTasks[s][i].pc \in {"done", "failed"}
\* one marker per message id of the calls, and one emit per call
OncePerMessageTwoEmits(s) ==
  /\ \A j \in 1..Len(readTasks[s][1].ids) :
        ReadsOf(readTasks[s][1].ids[j], sock[s].userId) = 1
  /\ ReadEmits(s, readTasks[s][1].conv) = 2
\* every insert of both calls succeeded
BothCompleted(s) == \A i \in 1..2 : readTasks[s][i].pc = "done"

\* C8 (as stated): two calls with the same conversation and message ids
\* leave one read marker per (message, user) and emit two messages_read.
C8_TwiceMarksOnce ==
  \A s \in Sockets : MarkedTwice(s) => OncePerMessageTwoEmits(s)

\* C8 (amended): two calls with the same conversation and message ids, all
\* of whose inserts succeed, leave one read marker per (message, user) for
\* every message of the list that is stored, as one call does, and emit two
\* messages_read; when an insert of one of the calls is rejected, that call
\* emits nothing, so fewer than two are emitted; and no (message, user) has
\* more than one marker either way.
C8_TwiceCompletedMarksOnce ==
  \A s \in Sockets :
     MarkedTwice(s)
     => /\ ReadEmits(s, readTasks[s][1].conv) = 2 <=> BothCompleted(s)
        /\ ReadEmits(s, readTasks[s][1].conv) <= 2
        /\ \A j \in 1..Len(readTasks[s][1].ids) :
              LET m == readTasks[s][1].ids[j]
                  n == ReadsOf(m, sock[s].userId)
              IN /\ n <= 1
                 /\ (BothCompleted(s) /\ m \in MessageIds) => n = 1

\* user 2 has twice marked messages 1 and 2 of conversation 1 read, and
\* every insert succeeded
C8_MarkedTwiceCompleted ==
  /\ MarkedTwice(102) /\ BothCompleted(102)
  /\ readTasks[102][1].ids = << 1, 2 >>
  /\ OncePerMessageTwoEmits(102)

\* attempts of user u in the history that set the blocked flag less than
\* BLOCK_DURATION ago
RecentBlocks(u) ==
  {i \in AttemptsOf(u) :
     attemptLog[i].verdict = "limit" /\ now - attemptLog[i].t < BLOCK_DURATION}
\* C11: once an attempt of user u has set the blocked flag at time t, the
\* flag stays set and every later attempt of u is rejected as rate-limited
\* until BLOCK_DURATION has passed since t, also when an attempt that passed
\* the rate-limit check before t is admitted after t.
C11_BlockHolds ==
  \A u \in Users : \A i \in RecentBlocks(u) :
     /\ connectionAttempts[u].blocked
     /\ \A j \in AttemptsOf(u) :
          j > i => attemptLog[j].verdict \in {"blocked", "limit"}

\* this step is a connection attempt of user u with a verifiable token
AttemptStep(u) ==
  /\ Len(attemptLog') = Len(attemptLog) + 1
  /\ attemptLog'[Len(attemptLog')].kind = "attempt"
  /\ attemptLog'[Len(attemptLog')].userId = u
HasSession(s) ==
  /\ [userId |-> sock[s].userId, token |-> sock[s].token] \in dbSessions
  /\ sock[s].token \notin dbExpired

\* C12: an attempt that finds the record blocked, BLOCK_DURATION or more
\* after its lastAttempt, passes the limiter, which clears the flag and
\* restarts the count; with a valid session it is admitted on an open
\* transport, which leaves the count at 0 and the flag clear; and attempts
\* made while blocked do not move lastAttempt, so the cooldown runs out.
C12_UnblockedAfterCooldown ==
  [][\A u \in Users :
       LET a == connectionAttempts[u]
           b == connectionAttempts'[u]
       IN /\ (AttemptStep(u) /\ a.blocked
               /\ now - a.lastAttempt >= BLOCK_DURATION)
             => /\ attemptLog'[Len(attemptLog')].verdict = "pass"
                /\ ~b.blocked /\ b.count = 1 /\ b.lastAttempt = now
                /\ \E s \in Sockets :
                      /\ sock[s].pc # "auth" /\ sock'[s].pc = "auth"
                      /\ sock'[s].userId = u
          /\ \A s \in Sockets :
               (sock[s].pc = "auth" /\ sock'[s].pc # "auth"
                /\ sock[s].userId = u /\ sock[s].conn = "open"
                /\ HasSession(s))
               => (sock'[s].pc = "setup_status" /\ ~b.blocked /\ b.count = 0)
          /\ (a.blocked /\ b.blocked) => b.lastAttempt = a.lastAttempt
    ]_vars

\* user 1 was blocked, came back after the cooldown, passed the limiter and
\* was admitted
C12_AdmittedAfterCooldown ==
  \E i \in AttemptsOf(1) :
     /\ attemptLog[i].before.blocked
     /\ attemptLog[i].t - attemptLog[i].before.lastAttempt >= BLOCK_DURATION
     /\ attemptLog[i].verdict = "pass"
     /\ \E j \in 1..Len(attemptLog) :
          j > i /\ attemptLog[j].kind = "connection"
     /\ ~connectionAttempts[1].blocked /\ connectionAttempts[1].count = 0
     /\ \E s \in Sockets : Live(s) /\ sock[s].userId = 1

\* C13: when the INSERT of a send fails, the sender's connection and no
\* other gets one error event, nothing is stored or fanned out, the
\* conversation's updated_at and the connections are left alone, and the
\* call is over: no new_message follows.
C13_InsertFailureAborts ==
  [][\A s \in Sockets : \A i \in 1..Len(sendTasks[s]) :
       /\ (sendTasks[s][i].pc = "insert"
           /\ sendTasks'[s][i].pc = "failed_insert")
          => /\ inbox' =
                  [x \in Sockets |->
                     IF x = s /\ sock[s].conn = "open"
                     THEN Append(inbox[x],
                                 ErrorEvent("Failed to send message"))
                     ELSE inbox[x]]
             /\ dbMessages' = dbMessages /\ roomEmits' = roomEmits
             /\ dbUpdatedAt' = dbUpdatedAt /\ sock' = sock
       /\ sendTasks[s][i].pc = "failed_insert"
          => sendTasks'[s][i] = sendTasks[s][i]
    ]_vars

\* the insert of a send of user 1 failed while user 2 was subscribed to the
\* room: user 1 has the error, user 2 has nothing, no row was stored
C13_InsertFailed ==
  /\ \E i \in 1..Len(sendTasks[101]) :
        sendTasks[101][i].pc = "failed_insert" /\ sendTasks[101][i].id = None
  /\ Received(101, "error", None) = 1
  /\ 102 \in RoomOf(1) /\ Len(inbox[102]) = 0
  /\ sock[101].conn = "open"
  /\ dbMessages = << >> /\ dbUpdatedAt[1] = 0

\* the states in which a send has ended with an error event to its sender
SendErrorPcs ==
  {"invalid", "denied", "failed_access", "failed_insert", "failed_sender",
   "failed_touch"}
Fanned(m) == \E j \in NewMessageEmits : roomEmits[j].id = m
\* C14: a send that has ended without an error has its row and was fanned
\* out; a send that has ended with an error has no row and was not fanned
\* out, whichever query failed.
C14_AllOrNothing ==
  \A s \in Sockets : \A i \in 1..Len(sendTasks[s]) :
     LET k == sendTasks[s][i]
     IN /\ k.pc = "done" => (k.id \in MessageIds /\ Fanned(k.id))
        /\ k.pc \in SendErrorPcs => (k.id \notin MessageIds /\ ~Fanned(k.id))

\* call i of socket s ends in this step, in one of the states of pcs
ReadEnds(s, i, pcs) ==
  /\ i \in 1..Len(readTasks'[s])
  /\ readTasks'[s][i].pc \in pcs
  /\ i > Len(readTasks[s]) \/ readTasks[s][i].pc = "insert"
\* this step emits one messages_read for call i of socket s: to every
\* subscriber of the room but s, with the user and the whole id list, and
\* every id of the list has its read marker
ReadAnnounced(s, i) ==
  LET r == readTasks'[s][i]
      u == sock[s].userId
  IN /\ roomEmits' = Append(roomEmits,
                         [type |-> "messages_read", id |-> None,
                          conv |-> r.conv, src |-> s, subs |-> RoomOf(r.conv)])
     /\ inbox' = [x \in Sockets |->
                    IF x \in RoomOf(r.conv) \ {s}
                    THEN Append(inbox[x], MessagesRead(u, r.conv, r.ids))
                    ELSE inbox[x]]
     /\ \A j \in 1..Len(r.ids) : HasRead(dbReads', r.ids[j], u)
\* no well-formed call ends in this step: nothing is emitted or delivered
ReadSilent ==
  (\A s \in Sockets : \A i \in 1..Len(readTasks'[s]) :
      ~ReadEnds(s, i, {"done", "failed"}))
  => (\A s \in Sockets : \A c \in Convs : ReadEmits(s, c)' = ReadEmits(s, c))

\* C15 (as stated): every well-formed mark_messages_read call ends with one
\* messages_read emit, after its markers are written, to the room's other
\* subscribers.
C15_EachCallAnnounces ==
  [][/\ \A s \in Sockets : \A i \in 1..Len(readTasks'[s]) :
          ReadEnds(s, i, {"done", "failed"}) => ReadAnnounced(s, i)
     /\ ReadSilent]_vars

\* C15 (amended): every well-formed call all of whose inserts succeed ends
\* with one such emit; a call with a failing insert ends without any, and
\* no other step emits messages_read.
C15_CompletedCallAnnounces ==
  [][/\ \A s \in Sockets : \A i \in 1..Len(readTasks'[s]) :
          /\ ReadEnds(s, i, {"done"}) => ReadAnnounced(s, i)
          /\ ReadEnds(s, i, {"failed"})
             => (roomEmits' = roomEmits /\ inbox' = inbox)
     /\ ReadSilent]_vars

\* user 2 marked messages 1 and 2 read in one call: user 1 got one
\* messages_read with both ids, user 2 got none
C15_OneEventForTwoIds ==
  /\ \E i \in 1..Len(readTasks[102]) :
        readTasks[102][i].pc = "done" /\ readTasks[102][i].ids = << 1, 2 >>
  /\ Len(SelectSeq(inbox[101], LAMBDA e : e.type = "messages_read")) = 1
  /\ \E j \in 1..Len(inbox[101]) :
        inbox[101][j] = MessagesRead(2, 1, << 1, 2 >>)
  /\ SelectSeq(inbox[102], LAMBDA e : e.type = "messages_read") = << >>
  /\ ReadsOf(1, 2) = 1 /\ ReadsOf(2, 2) = 1

\* the handshake of socket s goes on, or has led to a connection
Underway(s) == sock[s].pc \in {"auth", "setup_status", "setup_join", "ready"}
\* C16: a connection of user u that the server has closed was closed for a
\* later connection of u that is admitted or may still be; an attempt that
\* was refused has closed and unregistered nothing.  (Socket ids rise with
\* the order of arrival, and no client closes a connection.)
C16_EvictedOnlyByAdmitted ==
  \A e \in Sockets :
     (Admitted(e) /\ sock[e].conn = "closed")
     => \E s \in Sockets :
           s > e /\ Underway(s) /\ sock[s].userId = sock[e].userId

\* the attempts in the history that went on to the session query; each
\* took the least socket id not yet taken, so the n-th of them is the
\* attempt of the n-th socket
Passes ==
  {i \in 1..Len(attemptLog) :
     attemptLog[i].kind = "attempt" /\ attemptLog[i].verdict = "pass"}
AttemptsBy(s) ==
  {i \in Passes :
     Cardinality({j \in Passes : j <= i})
       = Cardinality({x \in Sockets : x <= s})}
\* a token that is missing, was never signed by the server, or has run out
Unverifiable(tok) ==
  tok.kind # "jwt" \/ tok \notin issued \/ tok \in jwtExpired
\* C17: an attempt with a missing or unverifiable token leaves the attempt
\* records as they are, and so does an attempt that is refused for want of
\* a valid session: the record of its user is, after its rate-limit check,
\* what it was before.
C17_RejectedNotCounted ==
  /\ [][(/\ Len(attemptLog') = Len(attemptLog) + 1
          /\ attemptLog'[Len(attemptLog')].kind = "attempt"
          /\ Unverifiable(attemptLog'[Len(attemptLog')].token))
         => connectionAttempts' = connectionAttempts]_vars
  /\ [](\A s \in Sockets :
          (sock[s].pc = "rejected" /\ AttemptsBy(s) # {})
          => LET e == attemptLog[Last(AttemptsBy(s))]
             IN e.after = e.before)

\* C18: every attempt of user u with a verifiable token leaves lastAttempt
\* of u's record at the current time, the attempts refused while the record
\* is blocked included.
C18_LastAttemptIsNow ==
  [][\A u \in Users :
       AttemptStep(u) => connectionAttempts'[u].lastAttempt = now]_vars

\* where in the inbox of socket x the new_message of message m stands
\* (0: not received)
PlaceOf(x, m) ==
  LET J == {j \in 1..Len(inbox[x]) :
              inbox[x][j].type = "new_message" /\ inbox[x][j].id = m}
  IN IF J = {} THEN 0 ELSE First(J)
\* C19: when a connection has submitted two sends to one conversation and
\* both were fanned out, the row of the first was stored before the row of
\* the second, and whoever received both received the first one first.
C19_SubmissionOrderKept ==
  \A s \in Sockets : \A i, j \in 1..Len(sendTasks[s]) :
     LET a == sendTasks[s][i]
         b == sendTasks[s][j]
     IN (i < j /\ a.conv = b.conv /\ Fanned(a.id) /\ Fanned(b.id))
        => /\ a.id < b.id
           /\ \A x \in Sockets :
                (PlaceOf(x, a.id) > 0 /\ PlaceOf(x, b.id) > 0)
                => PlaceOf(x, a.id) < PlaceOf(x, b.id)

\* no handshake, connection setup, disconnect handler or status broadcast
\* is under way
Quiet ==
  /\ discTasks = {} /\ \A b \in bcast : b.pc # "query"
  /\ \A s \in Sockets : sock[s].pc \notin {"auth", "setup_status", "setup_join"}
\* C20: once every handler has finished, the registry holds no entry of a
\* connection that has terminated, whenever it terminated after it was
\* registered: connectedUsers maps users to live connections only, and
\* userSockets has entries of live connections only.
C20_NoEntryOfDeadConnection ==
  Quiet =>
    /\ \A u \in Users :
         connectedUsers[u] # None => Live(connectedUsers[u])
    /\ \A s \in Sockets : userSockets[s] # None => Live(s)

\* C21: once a send whose row was inserted has ended, with the emit done
\* or with the sender query failed, updated_at of its conversation is not
\* older than the row.
C21_InsertedThenTouched ==
  \A s \in Sockets : \A i \in 1..Len(sendTasks[s]) :
     LET k == sendTasks[s][i]
     IN (k.pc \in {"done", "failed_sender"} /\ k.id \in MessageIds)
        => dbUpdatedAt[k.conv] >= k.at

\* C22: a store failure on an admitted connection aborts only the operation:
\* the step that ends the status update of a connection setup, whether the
\* update succeeded or not, leaves the transport of the connection and its
\* registry entries as they were.
C22_SetupFailureKeepsConnection ==
  [][\A s \in Sockets :
       (sock[s].pc = "setup_status" /\ sock'[s].pc # "setup_status")
       => /\ sock'[s].conn = sock[s].conn
          /\ connectedUsers' = connectedUsers
          /\ userSockets' = userSockets]_vars

\* C23: no inbound event ends the process or touches another connection:
\* in every step, a connection that does not close its own transport stays
\* live and registered if it was, and the process keeps running.
C23_NoEventIsFatal ==
  [][/\ Running'
     /\ Cardinality({s \in Sockets : Live(s) /\ ~Live(s)'}) <= 1
     /\ \A s \in Sockets :
          (Live(s) /\ Live(s)' /\ connectedUsers[sock[s].userId] = s)
          => connectedUsers'[sock[s].userId] = s]_vars

\* C24: join_conversation checks no membership: whenever a new_message is
\* emitted to the room of conversation c, every open connection subscribed
\* to c whose user is neither participant nor group member of c gets that
\* message, as the next event of its stream.
C24_OutsiderReceives ==
  [][\A x \in Sockets :
       (/\ Len(roomEmits') = Len(roomEmits) + 1
        /\ roomEmits'[Len(roomEmits')].type = "new_message"
        /\ roomEmits'[Len(roomEmits')].conv \in rooms[x]
        /\ sock[x].conn = "open"
        /\ Outsider(x, roomEmits'[Len(roomEmits')].conv))
       => /\ Len(inbox'[x]) = Len(inbox[x]) + 1
          /\ inbox'[x][Len(inbox'[x])].type = "new_message"
          /\ inbox'[x][Len(inbox'[x])].id = roomEmits'[Len(roomEmits')].id
          /\ inbox'[x][Len(inbox'[x])].conv = roomEmits'[Len(roomEmits')].conv
    ]_vars

\* connection 101 of user 1, no member of conversation 2, sent
\* join_conversation(2) and got both messages user 2 sent to it
C24_OutsiderGotMessages ==
  /\ Outsider(101, 2) /\ 2 \in rooms[101] /\ sock[101].conn = "open"
  /\ Len(dbMessages) = 2
  /\ \A j \in 1..Len(dbMessages) :
        /\ dbMessages[j].conv = 2
        /\ Received(101, "new_message", dbMessages[j].id) = 1

\* C25: an online announcement reaches a contact only once the connection it
\* announces is registered and has joined its conversation rooms, that is
\* once its setup has passed joinUserConversations.
C25_OnlineAfterJoin ==
  [][\A b \in bcast :
       (b \notin bcast' /\ b.status = "online" /\ inbox' # inbox)
       => /\ sock[b.src].pc = "ready"
          /\ ConversationsOf(b.userId) \subseteq rooms[b.src]]_vars

\* C26: the step that ends the membership query of a connection setup,
\* whether the query succeeded or not, leaves the transport and the
\* registry as they were and installs the handlers; the connection has then
\* joined all the conversation rooms of its user, or none when the query
\* failed.
C26_JoinFailureKeepsConnection ==
  [][\A s \in Sockets :
       (sock[s].pc = "setup_join" /\ sock'[s].pc # "setup_join")
       => /\ sock'[s] = [sock[s] EXCEPT !.pc = "ready"]
          /\ HandlerInstalled(s)'
          /\ connectedUsers' = connectedUsers
          /\ userSockets' = userSockets
          /\ rooms'[s] \in {rooms[s],
                            rooms[s] \cup ConversationsOf(sock[s].userId)}
    ]_vars

\* the membership query of connection 101 of user 2 failed: its message to
\* conversation 2 was emitted while it was subscribed to nothing; then it
\* joined room 1 and got its own message there, and its disconnect took its
\* entry out of the registry and sent the offline update
C26_UsedAfterFailure ==
  /\ sock[101].pc = "ready" /\ sock[101].conn = "closed"
  /\ connectedUsers[2] = None /\ userSockets[101] = None
  /\ 101 \in discTasks
  /\ \E j, k \in NewMessageEmits :
        /\ j < k
        /\ roomEmits[j].src = 101 /\ roomEmits[j].conv = 2
        /\ roomEmits[j].subs = {}
        /\ roomEmits[k].src = 101 /\ roomEmits[k].conv = 1
        /\ roomEmits[k].subs = {101}
        /\ Received(101, "new_message", roomEmits[k].id) = 1

\* record a has been idle for more than two block durations at time t
Stale(a, t) == a.present /\ t - a.lastAttempt > BLOCK_DURATION * 2
\* the instants of the two block durations from now on, a quarter of a
\* block apart
LaterTimes == {now + k * TickStep : k \in 0..((2 * BLOCK_DURATION) \div TickStep)}
\* what an attempt finds when the user has no record
DefaultRecord ==
  [present |-> TRUE, count |-> 0, lastAttempt |-> 0, blocked |-> FALSE]

\* C27: a firing of the cleanup deletes exactly the records idle for more
\* than 2 x BLOCK_DURATION, none of them with its block in force; and for a
\* deleted record, reset by an admission or not, the rate-limit check of any
\* later attempt gives the verdict and the record it gives without it.
C27_CleanupChangesNoOutcome ==
  [][(\E u \in Users : connectionAttempts[u].present
                        /\ ~connectionAttempts'[u].present)
     => \A u \in Users :
          LET a == connectionAttempts[u]
          IN /\ connectionAttempts'[u] = IF Stale(a, now) THEN NoRecord ELSE a
             /\ Stale(a, now)
                => /\ ~(a.blocked /\ now - a.lastAttempt < BLOCK_DURATION)
                   /\ \A t \in LaterTimes :
                        /\ RateCheck(a, t) = RateCheck(DefaultRecord, t)
                        /\ RateCheck([a EXCEPT !.count = 0,
                                               !.blocked = FALSE], t)
                             = RateCheck(DefaultRecord, t)
    ]_vars

\* connection 101 of user 1 was admitted, which left a record; the cleanup
\* deleted it, and the attempt of connection 102, the only one of the last
\* window, found no record, passed and evicted 101
C27_AttemptAfterCleanup ==
  /\ sock[101].userId = 1 /\ sock[101].pc = "setup_status"
  /\ sock[101].conn = "closed"
  /\ sock[102].userId = 1 /\ sock[102].pc = "auth"
  /\ Len(attemptLog) = 1
  /\ attemptLog[1].kind = "attempt" /\ attemptLog[1].userId = 1
  /\ ~attemptLog[1].before.present
  /\ attemptLog[1].verdict = "pass"
  /\ attemptLog[1].after.count = 1

\* v is an accepted contact of u: a contact row joins them, either way round
AcceptedContact(u, v) ==
  \E r \in dbContacts :
     /\ r.status = "accepted"
     /\ (r.user = u /\ r.contact = v) \/ (r.user = v /\ r.contact = u)

\* this step appends the one user_status_change of announcement b to the
\* stream of the registered connection of each accepted contact of its user,
\* and leaves the stream of every other connection as it was.  (A registry
\* entry whose transport has closed is no connection: nothing can be
\* delivered to it.)
AnnouncedToContacts(b) ==
  \A x \in Sockets :
     inbox'[x] =
       IF \E v \in Users : /\ AcceptedContact(b.userId, v)
                           /\ connectedUsers[v] = x
                           /\ sock[x].conn = "open"
       THEN Append(inbox[x], [type |-> "user_status_change",
                              userId |-> b.userId, status |-> b.status,
                              id |-> None, conv |-> None, at |-> 0,
                              ids |-> << >>])
       ELSE inbox[x]
\* the contacts query of announcement b is answered with an error in this step
QueryRejected(b) == [b EXCEPT !.pc = "failed"] \in bcast' \ bcast

\* C28 (as stated): the step that ends the contacts query of an announcement
\* of user U delivers its user_status_change once to the registered
\* connection of each accepted contact of U, and to no other connection.
C28_AnnouncedToContacts ==
  [][\A b \in bcast :
       (b.pc = "query" /\ b \notin bcast') => AnnouncedToContacts(b)]_vars

\* C28 (amended): the step that answers the contacts query of an
\* announcement of user U with rows delivers its user_status_change once to
\* the registered connection of each accepted contact of U, and to no other
\* connection; the step that answers it with an error delivers nothing to
\* any connection.
C28_AnsweredAnnouncedToContacts ==
  [][\A b \in bcast :
       (b.pc = "query" /\ b \notin bcast')
       => IF QueryRejected(b) THEN inbox' = inbox
          ELSE AnnouncedToContacts(b)]_vars

\* user 2 accepted the request of user 1, and then a connection of user 1
\* got the online announcement of user 2 and a connection of user 2 that of
\* user 1: the one contact row served both ways; the contacts query of the
\* offline announcement of user 1 was rejected, and user 2 got no offline
C28_BothWays ==
  \E x, y \in Sockets :
     /\ \E b \in bcast :
           b.userId = 1 /\ b.status = "offline" /\ b.pc = "failed"
     /\ \A j \in 1..Len(inbox[y]) : inbox[y][j].status # "offline"
     /\ \E i \in 1..Len(restTasks) :
           restTasks[i].op = "contact_accept" /\ restTasks[i].pc = "done"
     /\ sock[x].userId = 1 /\ sock[y].userId = 2
     /\ \E j \in 1..Len(inbox[x]) :
           inbox[x][j].type = "user_status_change"
           /\ inbox[x][j].userId = 2 /\ inbox[x][j].status = "online"
     /\ \E j \in 1..Len(inbox[y]) :
           inbox[y][j].type = "user_status_change"
           /\ inbox[y][j].userId = 1 /\ inbox[y][j].status = "online"

\* the status of the last user_status_change for user u that connection x
\* got, "" when it got none
LastStatusOf(x, u) ==
  LET js == {j \in 1..Len(inbox[x]) :
               inbox[x][j].type = "user_status_change"
               /\ inbox[x][j].userId = u}
  IN IF js = {} THEN ""
     ELSE inbox[x][CHOOSE j \in js : \A k \in js : k <= j].status

\* C29: whenever no handler and no store operation is pending, the stored
\* status of a user with a live connection is online and the last status
\* change each live connection of a contact got for that user, if it got
\* any, is online; the stored status of a user who has connected and has no
\* live connection is offline.
C29_StatusMatchesPresence ==
  Quiet =>
    \A u \in Users :
       /\ LiveOf(u) # {}
          => /\ dbStatus[u] = "online"
             /\ \A x \in Sockets :
                  (Live(x) /\ AcceptedContact(u, sock[x].userId))
                  => LastStatusOf(x, u) \in {"", "online"}
       /\ (LiveOf(u) = {} /\ \E s \in Sockets : Admitted(s)
                                                  /\ sock[s].userId = u)
          => dbStatus[u] = "offline"

\* the send_message events of connection s that the server is not working
\* on any more, or has answered already
SendsOver(s) ==
  {i \in 1..Len(sendTasks[s]) :
     sendTasks[s][i].pc \notin {"access", "insert", "sender"}}
\* the answers connection s got or caused: the new_message emits for its
\* messages and the error events sent to it
AnswersTo(s) ==
  Cardinality({j \in NewMessageEmits : roomEmits[j].src = s})
  + Len(SelectSeq(inbox[s], LAMBDA e : e.type = "error"))

\* C30: on a connection that is still open, each send_message event the
\* server is done with was answered by one new_message emit or one error
\* event, whenever after the admission it arrived: as many answers as
\* events.
C30_EverySendAnswered ==
  \A s \in Sockets :
     sock[s].conn = "open" => AnswersTo(s) = Cardinality(SendsOver(s))
====
